---- MODULE Spec2Model ----
(***************************************************************************)
(* Session log store, transcript reconstruction and checkpoint rewind of   *)
(* ClaudeSessionService, together with the workspace snapshot store        *)
(* (src/src/services/claude/workspaceSnapshots.ts).                        *)
(*                                                                         *)
(* One session log file, one snapshot log and a small workspace are        *)
(* modelled.  The session log is written by an append-only writer: a new   *)
(* record names as parent nothing, an identifier that is in no record, or  *)
(* a record already in the file.  Record identifiers are unique within the *)
(* file; only their equality matters, so a new record takes the first      *)
(* identifier that is free.  A path of the workspace that is a directory   *)
(* stays a directory.                                                      *)
(***************************************************************************)
EXTENDS Integers, Sequences, FiniteSets, TLC

\* ------------------------------------------------------------------ bounds
MaxLog == 3
MaxTurns == 2
MaxTools == 2
MaxWalkLog == 3
MaxSnaps == 2
MaxFiles == 2
MaxLines == 3
MaxPad == 1
MaxItems == 2
MaxRecs == 3
MaxVis == 3
MaxClock == 4
MaxExtra == 1
MaxQueued == 2
MaxTicks == 2

\* --------------------------------------------------------------- constants
SessionId == "s1"
Cwd == "/w"
NoParent == 0
Dangling == -1
SyntheticUuid == -2
Absent == "absent"
Directory == "dir"
Paths == {"f", "d"}
Contents == {"a", "b"}
Null == [type |-> "null"]
NoEntry == [mtime |-> -1, info |-> Null]

VARIABLES log, mtime, cache, fs, snapLog, pending, nextTool, rewound, ret,
          walk, rewrite, listing, jsonl, summary, rewind, clock, catalog,
          tasks, duel, index, chat

vars ==
  <<log, mtime, cache, fs, snapLog, pending, nextTool, rewound, ret,
    walk, rewrite, listing, jsonl, summary, rewind, clock, catalog,
    tasks, duel, index, chat>>

\* the session service with its files, and the studies of single procedures
sessionVars == <<log, mtime, cache, fs, snapLog, pending, nextTool, rewound, ret>>

studyVars ==
  <<walk, rewrite, listing, jsonl, summary, rewind, clock, catalog,
    tasks, duel, index, chat>>

walkRest ==
  <<rewrite, listing, jsonl, summary, rewind, clock, catalog,
    tasks, duel, index, chat>>

rewriteRest ==
  <<walk, listing, jsonl, summary, rewind, clock, catalog,
    tasks, duel, index, chat>>

listingRest ==
  <<walk, rewrite, jsonl, summary, rewind, clock, catalog,
    tasks, duel, index, chat>>

jsonlRest ==
  <<walk, rewrite, listing, summary, rewind, clock, catalog,
    tasks, duel, index, chat>>

summaryRest ==
  <<walk, rewrite, listing, jsonl, rewind, clock, catalog,
    tasks, duel, index, chat>>

rewindRest ==
  <<walk, rewrite, listing, jsonl, summary, clock, catalog,
    tasks, duel, index, chat>>

clockRest ==
  <<walk, rewrite, listing, jsonl, summary, rewind, catalog,
    tasks, duel, index, chat>>

catalogRest ==
  <<walk, rewrite, listing, jsonl, summary, rewind, clock,
    tasks, duel, index, chat>>

tasksRest ==
  <<walk, rewrite, listing, jsonl, summary, rewind, clock, catalog,
    duel, index, chat>>

duelRest ==
  <<walk, rewrite, listing, jsonl, summary, rewind, clock, catalog,
    tasks, index, chat>>

indexRest ==
  <<walk, rewrite, listing, jsonl, summary, rewind, clock, catalog,
    tasks, duel, chat>>

\* the studies beside the listings and the time of the system
raceRest ==
  <<walk, rewrite, listing, jsonl, summary, rewind, catalog, duel, index, chat>>

chatRest ==
  <<walk, rewrite, listing, jsonl, summary, rewind, clock, catalog,
    tasks, duel, index>>

\* ----------------------------------------------------------------- records
\* SessionMessage
Msg(u, p, t, meta, content) ==
  [uuid |-> u, sessionId |-> SessionId, parentUuid |-> p, type |-> t,
   isMeta |-> meta, content |-> content, cwd |-> Cwd]

\* a tool_use block of an assistant record's message.content
Block(name, id, path) ==
  [type |-> "tool_use", name |-> name, id |-> id, input |-> path]

\* WorkspaceSnapshotEntryV1
Snapshot(id, name, path, kind, content) ==
  [sessionId |-> SessionId, toolUseId |-> id, toolName |-> name,
   filePath |-> path, kind |-> kind, content |-> content]

Uuids(messages) == {messages[i].uuid : i \in 1..Len(messages)}

\* ------------------------------------------------------- pure computations
\* messageMap.get(u): Map.set keeps the last record written under a key
MapHas(messages, u) == \E i \in 1..Len(messages) : messages[i].uuid = u

MapGet(messages, u) ==
  LET I == {i \in 1..Len(messages) : messages[i].uuid = u}
  IN messages[CHOOSE i \in I : \A j \in I : j <= i]

\* messages.findIndex(m => m.uuid === u), 0-based, -1 when absent
FindIndex(messages, u) ==
  LET I == {i \in 1..Len(messages) : messages[i].uuid = u}
  IN IF I = {} THEN -1 ELSE (CHOOSE i \in I : \A j \in I : i <= j) - 1

\* the system records are shown as well
ConvertMessage_ShowsSystem(msg) ==
  IF msg.isMeta THEN Null
  ELSE [type |-> msg.type, message |-> msg.content, session_id |-> msg.uuid]

ConvertMessage(msg) ==
  IF msg.isMeta THEN Null
  ELSE IF msg.type = "user"
    THEN [type |-> "user", message |-> msg.content, session_id |-> msg.uuid]
  ELSE IF msg.type = "assistant"
    THEN [type |-> "assistant", message |-> msg.content, session_id |-> msg.uuid]
  ELSE Null

\* getSession: walk back up the tree from the last record of the file
RECURSIVE WalkBack(_, _, _)
WalkBack(messages, current, transcript) ==
  LET t == <<current>> \o transcript
  IN IF current.parentUuid # NoParent /\ MapHas(messages, current.parentUuid)
     THEN WalkBack(messages, MapGet(messages, current.parentUuid), t)
     ELSE t

MapConvert(seq) == [i \in 1..Len(seq) |-> ConvertMessage(seq[i])]

FilterTruthy(seq) == SelectSeq(seq, LAMBDA m : m # Null)

GetSessionResult(messages) ==
  IF Len(messages) = 0 THEN <<>>
  ELSE FilterTruthy(MapConvert(WalkBack(messages, messages[Len(messages)], <<>>)))

\* restoreCheckpoint: its own copy of the walk
RECURSIVE ChainWalk(_, _, _)
ChainWalk(messages, current, transcript) ==
  LET t == <<current>> \o transcript
  IN IF current.parentUuid # NoParent /\ MapHas(messages, current.parentUuid)
     THEN ChainWalk(messages, MapGet(messages, current.parentUuid), t)
     ELSE t

BuildChain(messages) == ChainWalk(messages, messages[Len(messages)], <<>>)

\* only the user turns count as checkpoints
Visible_UserTurnsOnly(transcript) ==
  SelectSeq(transcript, LAMBDA m : m.type = "user" /\ ~m.isMeta)

Visible(transcript) == SelectSeq(transcript, LAMBDA m : ConvertMessage(m) # Null)

InvalidIndex(messageIndex, visible) ==
  messageIndex < 0 \/ messageIndex >= Len(visible)

\* the cut keeps the target itself
CutIndex_AtTarget(messages, target) == FindIndex(messages, target.uuid)

CutIndex(messages, target) ==
  LET targetFileIndex == FindIndex(messages, target.uuid)
      parentFileIndex == FindIndex(messages, target.parentUuid)
  IN IF target.parentUuid # NoParent /\ parentFileIndex >= 0
     THEN parentFileIndex
     ELSE targetFileIndex - 1

\* the record at the cut counts as removed
Removed_FromCut(messages, cutIndex) ==
  IF cutIndex >= 0 THEN SubSeq(messages, cutIndex + 1, Len(messages)) ELSE messages

Removed(messages, cutIndex) ==
  IF cutIndex + 1 < Len(messages)
  THEN SubSeq(messages, cutIndex + 2, Len(messages))
  ELSE <<>>

IsMutatingTool(name) == name \in {"Write", "Edit", "MultiEdit", "NotebookEdit"}

BlockIds(content) ==
  LET sel == SelectSeq(content,
               LAMBDA b : b.type = "tool_use" /\ IsMutatingTool(b.name))
  IN [i \in 1..Len(sel) |-> sel[i].id]

RECURSIVE RemovedToolUseIds(_)
RemovedToolUseIds(removed) ==
  IF removed = <<>> THEN <<>>
  ELSE (IF Head(removed).type = "assistant"
        THEN BlockIds(Head(removed).content) ELSE <<>>)
       \o RemovedToolUseIds(Tail(removed))

Reverse(seq) == [i \in 1..Len(seq) |-> seq[Len(seq) + 1 - i]]

\* the ids are passed on in file order
RestoreOrder_FileOrder(removedToolUseIds) == removedToolUseIds

RestoreOrder(removedToolUseIds) == Reverse(removedToolUseIds)

\* ------------------------------------------------------------ snapshot store
\* loadWorkspaceSnapshotsByToolUseId(...).get(id): last entry of the session
SnapshotHas(snaps, sessionId, id) ==
  \E i \in 1..Len(snaps) :
    snaps[i].toolUseId = id /\ snaps[i].sessionId = sessionId

SnapshotGet(snaps, sessionId, id) ==
  LET I == {i \in 1..Len(snaps) :
              snaps[i].toolUseId = id /\ snaps[i].sessionId = sessionId}
  IN snaps[CHOOSE i \in I : \A j \in I : j <= i]

\* a file the tool created is kept
ApplySnapshot_KeepsCreated(acc, snaps, sessionId, toolUseId, ioFail) ==
  IF ~SnapshotHas(snaps, sessionId, toolUseId)
  THEN [acc EXCEPT !.missing = @ + 1]
  ELSE
    LET snapshot == SnapshotGet(snaps, sessionId, toolUseId)
        p == snapshot.filePath
        blocked == p \in ioFail \/ acc.fs[p] = Directory
    IN IF snapshot.kind = "file" /\ blocked
       THEN [acc EXCEPT !.errors = @ + 1]
       ELSE IF snapshot.kind = "file"
       THEN [acc EXCEPT !.fs[p] = snapshot.content, !.restored = @ + 1]
       ELSE [acc EXCEPT !.restored = @ + 1]

\* one iteration of the loop of restoreWorkspaceFilesFromSnapshots
ApplySnapshot(acc, snaps, sessionId, toolUseId, ioFail) ==
  IF ~SnapshotHas(snaps, sessionId, toolUseId)
  THEN [acc EXCEPT !.missing = @ + 1]
  ELSE
    LET snapshot == SnapshotGet(snaps, sessionId, toolUseId)
        p == snapshot.filePath
        blocked == p \in ioFail \/ acc.fs[p] = Directory
    IN IF snapshot.kind = "missing"
       THEN [acc EXCEPT !.fs[p] = IF blocked THEN @ ELSE Absent,
                        !.restored = @ + 1]
       ELSE IF snapshot.kind = "file"
       THEN IF blocked
            THEN [acc EXCEPT !.errors = @ + 1]
            ELSE [acc EXCEPT !.fs[p] = snapshot.content, !.restored = @ + 1]
       ELSE [acc EXCEPT !.restored = @ + 1]

\* the loop ends at the first id without a snapshot
RECURSIVE RestoreLoop_StopAtMiss(_, _, _, _, _)
RestoreLoop_StopAtMiss(acc, snaps, sessionId, toolUseIds, ioFail) ==
  IF toolUseIds = <<>> THEN acc
  ELSE IF ~SnapshotHas(snaps, sessionId, Head(toolUseIds))
  THEN [acc EXCEPT !.missing = @ + 1]
  ELSE RestoreLoop_StopAtMiss(
         ApplySnapshot(acc, snaps, sessionId, Head(toolUseIds), ioFail),
         snaps, sessionId, Tail(toolUseIds), ioFail)

RECURSIVE RestoreLoop(_, _, _, _, _)
RestoreLoop(acc, snaps, sessionId, toolUseIds, ioFail) ==
  IF toolUseIds = <<>> THEN acc
  ELSE RestoreLoop(ApplySnapshot(acc, snaps, sessionId, Head(toolUseIds), ioFail),
                   snaps, sessionId, Tail(toolUseIds), ioFail)

RestoreWorkspaceFilesFromSnapshots(fsys, snaps, sessionId, toolUseIds, ioFail) ==
  RestoreLoop([fs |-> fsys, restored |-> 0, missing |-> 0, errors |-> 0],
              snaps, sessionId, toolUseIds, ioFail)

\* recordWorkspaceSnapshotForTool: the entry captured for a path; statThrows
\* when fs.stat or fs.readFile throws for a path that exists
CaptureSnapshot(fsys, toolUseId, toolName, filePath, statThrows) ==
  IF fsys[filePath] = Absent \/ statThrows
  THEN Snapshot(toolUseId, toolName, filePath, "missing", "")
  ELSE IF fsys[filePath] = Directory
  THEN Snapshot(toolUseId, toolName, filePath, "other", "")
  ELSE Snapshot(toolUseId, toolName, filePath, "file", fsys[filePath])

\* the entry replaces the content of the snapshot log
AppendFile_Rewrites(entries, entry) == <<entry>>

\* fs.appendFile(logPath, `${JSON.stringify(entry)}\n`)
AppendFile(entries, entry) == Append(entries, entry)

\* ------------------------------------------------------------ session catalog
\* the info is built without the time of the file
ScanSessionInfo_NoTime(messages, mt) ==
  IF Len(messages) = 0 THEN Null
  ELSE [id |-> SessionId, lastModified |-> 0, messageCount |-> Len(messages)]

\* _scanSessionInfo on the records read from the session file
ScanSessionInfo(messages, mt) ==
  IF Len(messages) = 0 THEN Null
  ELSE [id |-> SessionId, lastModified |-> mt, messageCount |-> Len(messages)]

\* an entry of the cache is used whatever its modification time
ListSessionsOutcome_AnyEntry(messages, mt, cch) ==
  IF cch # NoEntry
  THEN [cache |-> cch, sessions |-> <<cch.info>>]
  ELSE LET info == ScanSessionInfo(messages, mt)
       IN IF info # Null
          THEN [cache |-> [mtime |-> mt, info |-> info], sessions |-> <<info>>]
          ELSE [cache |-> cch, sessions |-> <<>>]

\* an entry of another modification time is taken for a hit
CacheHit_AnyMtime(cch, mt) == cch # NoEntry

\* cached && cached.mtime === stat.mtime.getTime()
CacheHit(cch, mt) == cch # NoEntry /\ cch.mtime = mt

\* the result of listSessions for the project directory, and the cache after it
ListSessionsOutcome(messages, mt, cch) ==
  IF CacheHit(cch, mt)
  THEN [cache |-> cch, sessions |-> <<cch.info>>]
  ELSE LET info == ScanSessionInfo(messages, mt)
       IN IF info # Null
          THEN [cache |-> [mtime |-> mt, info |-> info], sessions |-> <<info>>]
          ELSE [cache |-> cch, sessions |-> <<>>]

\* a modification time the file system gives a file that is written: it differs
\* from the previous one and from the one the cache remembers
NextMtime(mt, cch) ==
  CHOOSE n \in 1..3 : n # mt /\ n # cch.mtime /\
    \A k \in 1..3 : (k # mt /\ k # cch.mtime) => n <= k

\* ---------------------------------------------------------- checkpoint rewind
SyntheticRecord(sessionId, cwd) ==
  [uuid |-> SyntheticUuid, sessionId |-> sessionId, parentUuid |-> NoParent,
   type |-> "system", isMeta |-> TRUE, content |-> <<>>, cwd |-> cwd]

\* every record is kept
Truncated_Whole(messages, cutIndex) == messages

Truncated(messages, cutIndex) ==
  IF cutIndex >= 0 THEN SubSeq(messages, 1, cutIndex + 1) ELSE <<>>

\* the truncated records are written as they are
AvoidEmpty_WriteAsIs(truncated, sessionId, cwd) == truncated

AvoidEmpty(truncated, sessionId, cwd) ==
  IF Len(truncated) = 0 THEN <<SyntheticRecord(sessionId, cwd)>> ELSE truncated

\* the prefix includes the target
RestoredPrefix_Inclusive(visible, messageIndex) ==
  FilterTruthy(MapConvert(SubSeq(visible, 1, messageIndex + 1)))

RestoredPrefix(visible, messageIndex) ==
  FilterTruthy(MapConvert(
    SubSeq(visible, 1, IF messageIndex > 0 THEN messageIndex ELSE 0)))

\* the outer catch of restoreCheckpoint: what the caller gets
Surface(error, value) ==
  [propagated |-> FALSE, value |-> IF error = "none" THEN value ELSE <<>>]

\* the cache entry is left to the comparison of the modification times
CacheAfter_Never(cch, error) == cch

\* the cache entry is evicted on every way out
CacheAfter_Always(cch, error) == NoEntry

\* the cache entry is evicted when the operation failed
CacheAfter_OnFailure(cch, error) == IF error = "none" THEN cch ELSE NoEntry

\* the cache once the operation is over
CacheAfter(cch, error) == IF error = "none" THEN NoEntry ELSE cch

\* an exception of the snapshot store ends the operation
WorkspaceError_Fatal(storeThrew) ==
  IF storeThrew THEN "WorkspaceFailure" ELSE "none"

\* the catch around the workspace rewind: an exception of the snapshot store
\* does not become the operation's error
WorkspaceError(storeThrew) == "none"

\* fs.writeFile(filePath, newContent): the records the file holds afterwards.
\* A failing open leaves the file alone; a write that fails after the file was
\* opened leaves it truncated.
WriteFile(old, new, writeFault) ==
  IF writeFault = "none" THEN new
  ELSE IF writeFault = "open" THEN old
  ELSE <<>>

Ret(op) ==
  [op |-> op, messageIndex |-> -1, target |-> Null, error |-> "none",
   propagated |-> FALSE, value |-> <<>>, cutIndex |-> -1, called |-> FALSE,
   toolUseIds |-> <<>>, restored |-> 0, missing |-> 0, errors |-> 0,
   storeThrew |-> FALSE, ioFail |-> {}, evicted |-> FALSE, fsBefore |-> <<>>]

Failed(r, error) ==
  LET s == Surface(error, <<>>)
  IN [r EXCEPT !.error = error, !.propagated = s.propagated, !.value = s.value]

\* the entry of the session is deleted before the return
CacheOnNoRecords_Evicts(cch) == NoEntry

\* if (messages.length === 0) return []: the return is before the eviction
CacheOnNoRecords(cch) == cch

\* restoreCheckpoint(sessionId, cwd, messageIndex) on the given files; the faults
\* are the environment's: writeFault for the write of the session file, ioFail
\* for the paths of the workspace that cannot be written, storeThrows for an
\* exception out of the snapshot store
RestoreCheckpointOutcome(messages, mt, cch, fsys, snaps, messageIndex, writeFault, ioFail, storeThrows) ==
  LET r0 == [Ret("restoreCheckpoint") EXCEPT !.messageIndex = messageIndex]
      same == [log |-> messages, mtime |-> mt, cache |-> cch, fs |-> fsys]
      Abort(r, error) ==
        [log |-> messages, mtime |-> mt, cache |-> CacheAfter(cch, error),
         fs |-> fsys, ret |-> Failed(r, error)]
  IN
  IF Len(messages) = 0
  THEN [same EXCEPT !.cache = CacheOnNoRecords(cch)] @@ [ret |-> r0]
  ELSE
  LET transcript == BuildChain(messages)
      visible == Visible(transcript)
  IN
  IF InvalidIndex(messageIndex, visible)
  THEN Abort(r0, "InvalidIndex")
  ELSE
  LET target == visible[messageIndex + 1]
  IN
  IF FindIndex(messages, target.uuid) < 0
  THEN Abort(r0, "TargetNotFound")
  ELSE
  LET cutIndex == CutIndex(messages, target)
      removedToolUseIds == RemovedToolUseIds(Removed(messages, cutIndex))
      called == Len(removedToolUseIds) > 0
      storeThrew == called /\ storeThrows
      ws == IF called /\ ~storeThrew
            THEN RestoreWorkspaceFilesFromSnapshots(fsys, snaps, SessionId,
                   RestoreOrder(removedToolUseIds), ioFail)
            ELSE [fs |-> fsys, restored |-> 0, missing |-> 0, errors |-> 0]
      r1 == [r0 EXCEPT !.target = target, !.cutIndex = cutIndex, !.called = called,
               !.toolUseIds = IF called THEN RestoreOrder(removedToolUseIds) ELSE <<>>,
               !.restored = ws.restored, !.missing = ws.missing,
               !.errors = ws.errors, !.storeThrew = storeThrew,
               !.ioFail = IF called /\ ~storeThrew THEN ioFail ELSE {}]
  IN
  IF WorkspaceError(storeThrew) # "none"
  THEN Abort(r1, WorkspaceError(storeThrew))
  ELSE
  LET truncated == AvoidEmpty(Truncated(messages, cutIndex), SessionId, Cwd)
      error == IF writeFault = "none" THEN "none" ELSE "PersistFailure"
      content == WriteFile(messages, truncated, writeFault)
      s == Surface(error, RestoredPrefix(visible, messageIndex))
  IN [log |-> content,
      mtime |-> IF writeFault = "open" THEN mt ELSE NextMtime(mt, cch),
      cache |-> CacheAfter(cch, error),
      fs |-> ws.fs,
      ret |-> [r1 EXCEPT !.error = error, !.propagated = s.propagated,
                         !.value = s.value,
                         !.evicted = (error = "none" /\ cch # NoEntry)]]

\* ----------------------------------------------------------------- the system
\* the service after its construction, the files before the first record
Fresh ==
  /\ log = <<>>
  /\ mtime = 0
  /\ cache = NoEntry
  /\ fs = [p \in Paths |-> IF p = "d" THEN Directory ELSE Absent]
  /\ snapLog = <<>>
  /\ pending = <<>>
  /\ nextTool = 1
  /\ rewound = FALSE
  /\ ret = Ret("init")

\* no walk under study
NoWalk ==
  [messages |-> <<>>, op |-> "none", pc |-> "done", current |-> Null,
   transcript |-> <<>>, iterations |-> 0]

\* no write of the session file under way
NoRewrite == [pc |-> "idle", old |-> <<>>, new |-> <<>>, ret |-> Ret("init")]

\* the files of a project directory: what a name and a file can be for the
\* listing, and the modification times
FileStatus == {"session", "empty", "unreadable", "foreign"}

Mtimes == {1, 2}

\* a project directory before any listing, the cache empty
NoListing ==
  [dir |-> [f \in 1..MaxFiles |-> [status |-> "foreign", mtime |-> 1]],
   cache |-> [f \in 1..MaxFiles |-> NoEntry],
   pc |-> "idle", readdirThrew |-> FALSE, todo |-> {}, sessions |-> <<>>,
   result |-> <<>>, propagated |-> FALSE, read |-> Null]

\* no file under study
NoJsonl == [content |-> <<>>, rewritten |-> FALSE, written |-> <<>>, pc |-> "stored", result |-> <<>>]

\* no file of the project directory under study
NoCatalog ==
  [name |-> <<>>, records |-> 0, mtime |-> 1, cache |-> NoEntry, pc |-> "idle",
   sessions |-> <<>>]

\* the time of the system, and whether it was ever set back
NoClock == [now |-> 0, setBack |-> FALSE]

\* no rewind under way
NoRewind ==
  [pc |-> "idle", messageIndex |-> -1, messages |-> <<>>, visible |-> <<>>,
   target |-> Null, cutIndex |-> -1, todo |-> <<>>, truncated |-> <<>>,
   error |-> "none", steps |-> <<>>]

\* no call of listSessions and no rewind under way
NoTasks ==
  [run |-> [i \in 1..2 |->
     [pc |-> "idle", mtime |-> -1, lastModified |-> -1, messages |-> <<>>,
      hit |-> FALSE, pushed |-> Null, stored |-> NoEntry, overlapped |-> FALSE,
      disturbed |-> FALSE, moved |-> FALSE, late |-> FALSE, raced |-> FALSE,
      afterRewind |-> FALSE, hitAfterRewind |-> FALSE, hitStale |-> FALSE,
      single |-> NoEntry]],
   rewind |-> "idle", entryStale |-> FALSE, entryMoved |-> FALSE]

\* no pair of rewinds under way
NoDuel ==
  [run |-> [i \in 1..2 |->
     [pc |-> "idle", messageIndex |-> -1, error |-> "none", todo |-> <<>>,
      content |-> <<>>]],
   started |-> FALSE, overlapped |-> FALSE, order |-> <<>>,
   start |-> [log |-> <<>>, fs |-> <<>>]]

\* no snapshot log under study: the file of the session's snapshots is missing
NoIndex ==
  [missing |-> TRUE, lines |-> <<>>, pc |-> "idle", sessionId |-> "none",
   snapshots |-> <<>>, error |-> "none"]

\* the chat page of an idle session before any message
NoChat ==
  [queue |-> <<>>, busy |-> FALSE, ticks |-> 0, sends |-> <<>>, pending |-> 0,
   direct |-> FALSE, attachments |-> 0, nextId |-> 1, last |-> "init"]

\* no records to summarize
NoSummary == [messages |-> <<>>, pc |-> "idle", derived |-> <<>>, value |-> <<>>]

Init ==
  /\ Fresh
  /\ walk = NoWalk
  /\ rewrite = NoRewrite
  /\ listing = NoListing
  /\ jsonl = NoJsonl
  /\ summary = NoSummary
  /\ rewind = NoRewind
  /\ clock = NoClock
  /\ tasks = NoTasks
  /\ duel = NoDuel
  /\ index = NoIndex
  /\ chat = NoChat
  /\ catalog = NoCatalog

FreshUuid(messages) ==
  CHOOSE n \in 1..(Len(messages) + 1) :
    n \notin Uuids(messages) /\
    \A k \in 1..(Len(messages) + 1) : k \notin Uuids(messages) => n <= k

\* the writer of the session log appends one record
AppendLine(r) ==
  /\ Len(log) < MaxLog
  /\ log' = Append(log, r)
  /\ mtime' = NextMtime(mtime, cache)
  /\ ret' = Ret("append")

\* a record of any visibility with any parent, no tool invocation
AppendRecord ==
  \E p \in {NoParent, Dangling} \cup Uuids(log),
     k \in {<<"user", FALSE>>, <<"user", TRUE>>, <<"assistant", FALSE>>} :
    /\ AppendLine(Msg(FreshUuid(log), p, k[1], k[2], <<>>))
    /\ UNCHANGED <<cache, fs, snapLog, pending, nextTool, rewound>>
    /\ UNCHANGED studyVars

GetSession ==
  /\ ret' = [Ret("getSession") EXCEPT !.value = GetSessionResult(log)]
  /\ UNCHANGED <<log, mtime, cache, fs, snapLog, pending, nextTool, rewound>>
  /\ UNCHANGED studyVars

ListSessions ==
  LET o == ListSessionsOutcome(log, mtime, cache)
  IN /\ cache' = o.cache
     /\ ret' = [Ret("listSessions") EXCEPT !.value = o.sessions]
     /\ UNCHANGED <<log, mtime, fs, snapLog, pending, nextTool, rewound>>
     /\ UNCHANGED studyVars

\* an assistant turn that invokes tools, or a user turn, after the last record
AppendTurn ==
  \E content \in {<<>>}
       \cup {<<Block("Edit", nextTool, p)>> : p \in Paths}
       \cup {<<Block("Read", nextTool, "f")>>}
       \cup {<<Block("Edit", nextTool, "f"), Block("Write", nextTool + 1, "f")>>},
     t \in {"user", "assistant"} :
    /\ t = "user" => content = <<>>
    /\ Len(log) < MaxTurns
    /\ nextTool + Len(content) - 1 <= MaxTools
    /\ AppendLine(Msg(FreshUuid(log),
                      IF Len(log) = 0 THEN NoParent ELSE log[Len(log)].uuid,
                      t, FALSE, content))
    /\ nextTool' = nextTool + Len(content)
    /\ pending' = pending \o content
    /\ UNCHANGED <<cache, fs, snapLog, rewound>>
    /\ UNCHANGED studyVars

\* recordWorkspaceSnapshotForTool for the invocation that is about to run
RecordSnapshot ==
  /\ pending # <<>>
  /\ IsMutatingTool(Head(pending).name)
  /\ ~SnapshotHas(snapLog, SessionId, Head(pending).id)
  /\ snapLog' = AppendFile(snapLog,
       CaptureSnapshot(fs, Head(pending).id, Head(pending).name,
                       Head(pending).input, FALSE))
  /\ ret' = Ret("tool")
  /\ UNCHANGED <<log, mtime, cache, fs, pending, nextTool, rewound>>
  /\ UNCHANGED studyVars

\* the invoked tool runs: a mutating tool changes the content of its file
ToolRuns ==
  /\ pending # <<>>
  /\ LET b == Head(pending)
     IN IF IsMutatingTool(b.name) /\ fs[b.input] # Directory
        THEN \E c \in Contents \ {fs[b.input]} : fs' = [fs EXCEPT ![b.input] = c]
        ELSE fs' = fs
  /\ pending' = Tail(pending)
  /\ ret' = Ret("tool")
  /\ UNCHANGED <<log, mtime, cache, snapLog, nextTool, rewound>>
  /\ UNCHANGED studyVars

\* restoreCheckpoint under the faults the environment may produce: a failing
\* write of the session file and, when WsFaults, a path of the workspace that
\* cannot be written or a throwing snapshot store
RestoreCheckpoint(WsFaults) ==
  \E messageIndex \in -1..Len(log) :
    \E plain \in {RestoreCheckpointOutcome(log, mtime, cache, fs, snapLog,
                   messageIndex, "none", {}, FALSE)} :
      \E ws \in IF WsFaults /\ plain.ret.called
                THEN {"none", "io", "throw"} ELSE {"none"},
         writeFault \in IF plain.ret.error = "none" /\ Len(log) > 0
                        THEN {"none", "open", "truncated"} ELSE {"none"} :
        \E o \in {IF ws = "none" /\ writeFault = "none" THEN plain
                  ELSE RestoreCheckpointOutcome(log, mtime, cache, fs, snapLog,
                         messageIndex, writeFault,
                         IF ws = "io" THEN {"f"} ELSE {}, ws = "throw")} :
          /\ log' = o.log
          /\ mtime' = o.mtime
          /\ cache' = o.cache
          /\ fs' = o.fs
          /\ ret' = o.ret
          /\ rewound' = (rewound \/ Len(log) > 0)
          /\ UNCHANGED <<snapLog, pending, nextTool>>
          /\ UNCHANGED studyVars

\* the log store and the transcript: records of any shape, no tool runs
Next == AppendRecord \/ GetSession \/ RestoreCheckpoint(FALSE)

Spec == Init /\ [][Next]_vars

\* the rewind with the workspace: linear transcripts whose tools run; the tools
\* of a turn run one after the other, each after its snapshot was recorded (or
\* without one), the session is listed or rewound only between turns, and no
\* turn is appended after a rewind. The workspace faults meet the first rewind
\* of a session; the rewinds after it still meet the failing writes of the log
Idle == pending = <<>>

NextWs ==
  \/ Idle /\ ~rewound /\ AppendTurn
  \/ RecordSnapshot
  \/ ToolRuns
  \/ Idle /\ ListSessions
  \/ Idle /\ ~rewound /\ RestoreCheckpoint(TRUE)
  \/ Idle /\ rewound /\ RestoreCheckpoint(FALSE)

SpecWs == Init /\ [][NextWs]_vars

\* --------------------------------------------------- the walk, step by step
\* the loop `while (current)` of getSession and of restoreCheckpoint on any
\* records a file may hold: a parent may be absent, unresolvable, an earlier
\* record, a later one or the record itself
WalkLogs ==
  UNION {{[i \in 1..n |-> Msg(i, p[i], "user", FALSE, <<>>)] :
            p \in [1..n -> {NoParent, Dangling} \cup (1..n)]} : n \in 0..MaxWalkLog}

InitWalk ==
  /\ Fresh
  /\ rewrite = NoRewrite
  /\ listing = NoListing
  /\ jsonl = NoJsonl
  /\ summary = NoSummary
  /\ rewind = NoRewind
  /\ clock = NoClock
  /\ tasks = NoTasks
  /\ duel = NoDuel
  /\ index = NoIndex
  /\ chat = NoChat
  /\ catalog = NoCatalog
  /\ walk \in {[NoWalk EXCEPT !.messages = m, !.op = o, !.pc = "read"] :
                 m \in WalkLogs, o \in {"getSession", "restoreCheckpoint"}}

\* transcript.push(current)
Unshift_Push(transcript, current) == Append(transcript, current)

\* transcript.unshift(current)
Unshift(transcript, current) == <<current>> \o transcript

\* the records were read: return [] when there are none, else start at the
\* last record of the file
WalkStart ==
  /\ walk.pc = "read"
  /\ walk' = IF Len(walk.messages) = 0
             THEN [walk EXCEPT !.pc = "done"]
             ELSE [walk EXCEPT !.pc = "while",
                               !.current = walk.messages[Len(walk.messages)]]
  /\ UNCHANGED sessionVars
  /\ UNCHANGED walkRest

\* one iteration of the loop. The transcript is recorded up to one record more
\* than the file holds and the iterations are counted modulo 2; the loop
\* itself goes on
WalkIteration ==
  /\ walk.pc = "while"
  /\ walk.current # Null
  /\ walk' = [walk EXCEPT
       !.iterations = (@ + 1) % 2,
       !.transcript = IF Len(@) <= Len(walk.messages)
                      THEN Unshift(@, walk.current) ELSE @,
       !.current = IF walk.current.parentUuid # NoParent
                      /\ MapHas(walk.messages, walk.current.parentUuid)
                    THEN MapGet(walk.messages, walk.current.parentUuid)
                    ELSE Null]
  /\ UNCHANGED sessionVars
  /\ UNCHANGED walkRest

\* the loop is left when current is undefined
WalkExit ==
  /\ walk.pc = "while"
  /\ walk.current = Null
  /\ walk' = [walk EXCEPT !.pc = "done"]
  /\ UNCHANGED sessionVars
  /\ UNCHANGED walkRest

NextWalk == WalkStart \/ WalkIteration \/ WalkExit

\* the loop is synchronous code: once entered it is always scheduled
SpecWalk == InitWalk /\ [][NextWalk]_vars /\ WF_vars(NextWalk)

\* ------------------------------------------- the rewind beside its readers
\* restoreCheckpoint up to its call of fs.writeFile, which opens the session
\* file with the flag 'w': the file is truncated to length zero
WriteFileOpen ==
  /\ rewrite.pc = "idle"
  /\ \E messageIndex \in 0..Len(log) :
       \E o \in {RestoreCheckpointOutcome(log, mtime, cache, fs, snapLog,
                   messageIndex, "none", {}, FALSE)} :
         /\ o.ret.target # Null
         /\ o.ret.error = "none"
         /\ rewrite' = [pc |-> "opened", old |-> log, new |-> o.log, ret |-> o.ret]
  /\ log' = <<>>
  /\ mtime' = NextMtime(mtime, cache)
  /\ ret' = Ret("writeFile")
  /\ UNCHANGED <<cache, fs, snapLog, pending, nextTool, rewound>>
  /\ UNCHANGED rewriteRest

\* fs.writeFile writes the new content into the opened file and closes it
WriteFileData ==
  /\ rewrite.pc = "opened"
  /\ rewrite' = [rewrite EXCEPT !.pc = "written"]
  /\ log' = rewrite.new
  /\ mtime' = NextMtime(mtime, cache)
  /\ ret' = Ret("writeFile")
  /\ UNCHANGED <<cache, fs, snapLog, pending, nextTool, rewound>>
  /\ UNCHANGED rewriteRest

\* after the write: the cache entry is deleted and the prefix returned
RestoreCheckpointReturn ==
  /\ rewrite.pc = "written"
  /\ rewrite' = NoRewrite
  /\ cache' = CacheAfter(cache, "none")
  /\ ret' = [rewrite.ret EXCEPT !.evicted = (cache # NoEntry)]
  /\ rewound' = TRUE
  /\ UNCHANGED <<log, mtime, fs, snapLog, pending, nextTool>>
  /\ UNCHANGED rewriteRest

\* the readers run at any of the rewind's awaits; the writer of the log does
\* not append during a rewind
NextConc ==
  \/ rewrite.pc = "idle" /\ AppendRecord
  \/ WriteFileOpen
  \/ WriteFileData
  \/ RestoreCheckpointReturn
  \/ GetSession
  \/ ListSessions

SpecConc == Init /\ [][NextConc]_vars

\* ------------------------------------------------- the snapshot store alone
\* recordWorkspaceSnapshotForTool for any invocation id and path
RecordWorkspaceSnapshotForTool ==
  /\ ret.op # "restoreWorkspaceFiles"
  /\ Len(snapLog) < MaxSnaps
  /\ \E id \in 1..MaxTools, p \in Paths, statThrows \in BOOLEAN :
       /\ statThrows => fs[p] # Absent
       /\ snapLog' = AppendFile(snapLog, CaptureSnapshot(fs, id, "Edit", p, statThrows))
  /\ ret' = Ret("recordSnapshot")
  /\ UNCHANGED <<log, mtime, cache, fs, pending, nextTool, rewound>>
  /\ UNCHANGED studyVars

\* the file of the workspace is created, rewritten or deleted
WorkspaceChanges ==
  /\ ret.op # "restoreWorkspaceFiles"
  /\ \E v \in ({Absent} \cup Contents) \ {fs["f"]} : fs' = [fs EXCEPT !["f"] = v]
  /\ ret' = Ret("tool")
  /\ UNCHANGED <<log, mtime, cache, snapLog, pending, nextTool, rewound>>
  /\ UNCHANGED studyVars

\* restoreWorkspaceFilesFromSnapshots for any list of invocation ids, while
\* the paths of ioFail cannot be deleted or written
RestoreWorkspaceFiles ==
  /\ ret.op # "restoreWorkspaceFiles"
  /\ \E toolUseIds \in UNION {[1..n -> 1..MaxTools] : n \in 0..MaxTools},
        ioFail \in {{}, {"f"}} :
       \E r \in {RestoreWorkspaceFilesFromSnapshots(fs, snapLog, SessionId,
                    toolUseIds, ioFail)} :
         /\ fs' = r.fs
         /\ ret' = [Ret("restoreWorkspaceFiles") EXCEPT
                      !.toolUseIds = toolUseIds, !.ioFail = ioFail,
                      !.restored = r.restored, !.missing = r.missing,
                      !.errors = r.errors, !.fsBefore = fs]
  /\ UNCHANGED <<log, mtime, cache, snapLog, pending, nextTool, rewound>>
  /\ UNCHANGED studyVars

\* the store is followed up to a restore
NextStore ==
  RecordWorkspaceSnapshotForTool \/ WorkspaceChanges \/ RestoreWorkspaceFiles

SpecStore == Init /\ [][NextStore]_vars

\* ------------------------------------------------ the listing of a directory
\* _scanSessionInfo of a file that could be read: null without records or
\* when the name is no session id
ScanInfo(f, file) ==
  IF file.status = "session"
  THEN [id |-> f, lastModified |-> file.mtime, messageCount |-> 1]
  ELSE Null

\* a failure of one file empties the listing
OnScanError_DropsAll(sessions) == <<>>

\* the catch of the task of one file
OnScanError(sessions) == sessions

\* the task of one file of listSessions: the sessions pushed so far and the
\* cache after it
ScanFile(sessions, cch, f, file) ==
  IF file.status = "unreadable"
  THEN [sessions |-> OnScanError(sessions), cache |-> cch]
  ELSE IF cch[f] # NoEntry /\ cch[f].mtime = file.mtime
  THEN [sessions |-> Append(sessions, cch[f].info), cache |-> cch]
  ELSE IF ScanInfo(f, file) # Null
  THEN [sessions |-> Append(sessions, ScanInfo(f, file)),
        cache |-> [cch EXCEPT ![f] = [mtime |-> file.mtime, info |-> ScanInfo(f, file)]]]
  ELSE [sessions |-> sessions, cache |-> cch]

\* the sessions are returned in the order the tasks pushed them
SortByLastModified_AsPushed(sessions) == sessions

\* sessions.sort((a, b) => b.lastModified - a.lastModified): a stable sort
RECURSIVE SortByLastModified(_)
SortByLastModified(sessions) ==
  IF sessions = <<>> THEN <<>>
  ELSE LET n == Len(sessions)
           x == sessions[n]
           sorted == SortByLastModified(SubSeq(sessions, 1, n - 1))
           k == Cardinality({i \in 1..Len(sorted) :
                              sorted[i].lastModified >= x.lastModified})
       IN SubSeq(sorted, 1, k) \o <<x>> \o SubSeq(sorted, k + 1, Len(sorted))

\* readJSONL of a file given by its path
ReadRecords(file) ==
  IF file.status = "session"
  THEN <<Msg(1, NoParent, "user", FALSE, <<>>)>>
  ELSE <<>>

\* a file of the directory is written, replaced, made unreadable or renamed
DirectoryChanges ==
  /\ listing.pc # "scanning"
  /\ \E f \in 1..MaxFiles, st \in FileStatus, mt \in Mtimes :
       /\ mt # listing.dir[f].mtime
       /\ listing' = [listing EXCEPT !.dir[f] = [status |-> st, mtime |-> mt],
                                     !.pc = "idle", !.readdirThrew = FALSE,
                                     !.sessions = <<>>, !.result = <<>>,
                                     !.read = Null]
  /\ UNCHANGED sessionVars
  /\ UNCHANGED listingRest

\* listSessions reads the directory and starts one task per file
ListSessionsStart ==
  /\ listing.pc # "scanning"
  /\ \E readdirThrows \in BOOLEAN :
       listing' = IF readdirThrows
                  THEN [listing EXCEPT !.pc = "done", !.readdirThrew = TRUE,
                          !.todo = {}, !.sessions = <<>>, !.result = <<>>,
                          !.read = Null]
                  ELSE [listing EXCEPT !.pc = "scanning", !.readdirThrew = FALSE,
                          !.todo = 1..MaxFiles, !.sessions = <<>>,
                          !.result = <<>>, !.read = Null]
  /\ UNCHANGED sessionVars
  /\ UNCHANGED listingRest

\* the task of one file completes; the tasks complete in any order
ScanTask ==
  /\ listing.pc = "scanning"
  /\ \E f \in listing.todo :
       \E o \in {ScanFile(listing.sessions, listing.cache, f, listing.dir[f])} :
         listing' = [listing EXCEPT !.todo = @ \ {f}, !.sessions = o.sessions,
                                   !.cache = o.cache]
  /\ UNCHANGED sessionVars
  /\ UNCHANGED listingRest

\* all tasks completed: the sessions are sorted and returned
ListSessionsEnd ==
  /\ listing.pc = "scanning"
  /\ listing.todo = {}
  /\ \E s \in {Surface("none", SortByLastModified(listing.sessions))} :
       listing' = [listing EXCEPT !.pc = "done", !.result = s.value,
                                 !.propagated = s.propagated]
  /\ UNCHANGED sessionVars
  /\ UNCHANGED listingRest

\* getSession for a file of the directory, given by its path, between listings
GetSessionOfFile ==
  /\ listing.pc = "idle"
  /\ \E f \in 1..MaxFiles :
       \E s \in {Surface("none", GetSessionResult(ReadRecords(listing.dir[f])))} :
         listing' = [listing EXCEPT !.read =
                       [file |-> f, value |-> s.value, propagated |-> s.propagated]]
  /\ UNCHANGED sessionVars
  /\ UNCHANGED listingRest

NextList ==
  \/ DirectoryChanges
  \/ ListSessionsStart
  \/ ScanTask
  \/ ListSessionsEnd
  \/ GetSessionOfFile

SpecList == Init /\ [][NextList]_vars

\* ------------------------------------------------------- the text of a log
\* The text of a file is a sequence of characters: LF the line feed, SP a
\* blank, BS the backslash, the braces of an object, the letters x and n of a
\* string, and the word null. A record is the text it carries; a JSON text is
\* the word null or an object, whose string escapes LF and BS with a BS.
Missing == <<"ENOENT">>

JsonNull == [json |-> "null"]

\* String.prototype.trim on a line
RECURSIVE Trim(_)
Trim(line) ==
  IF line = <<>> THEN <<>>
  ELSE IF Head(line) = "SP" THEN Trim(Tail(line))
  ELSE IF line[Len(line)] = "SP" THEN Trim(SubSeq(line, 1, Len(line) - 1))
  ELSE line

\* content.split("\n")
RECURSIVE Split(_)
Split(content) ==
  IF \A i \in 1..Len(content) : content[i] # "LF" THEN <<content>>
  ELSE LET i == CHOOSE i \in 1..Len(content) :
                  content[i] = "LF" /\ \A j \in 1..(i - 1) : content[j] # "LF"
       IN <<SubSeq(content, 1, i - 1)>> \o Split(SubSeq(content, i + 1, Len(content)))

\* the characters of a string between its quotes are well formed
RECURSIVE WellEscaped(_)
WellEscaped(chars) ==
  IF chars = <<>> THEN TRUE
  ELSE IF Head(chars) \in {"x", "n", "SP"} THEN WellEscaped(Tail(chars))
  ELSE IF Head(chars) = "BS"
  THEN Len(chars) >= 2 /\ chars[2] \in {"n", "BS"} /\ WellEscaped(Tail(Tail(chars)))
  ELSE FALSE

RECURSIVE Unescape(_)
Unescape(chars) ==
  IF chars = <<>> THEN <<>>
  ELSE IF Head(chars) = "BS"
  THEN <<IF chars[2] = "n" THEN "LF" ELSE "BS">> \o Unescape(Tail(Tail(chars)))
  ELSE <<Head(chars)>> \o Unescape(Tail(chars))

\* the characters of a string are written as they are
Escape_Raw(text) == text

\* JSON.stringify of a string: LF and BS are escaped
RECURSIVE Escape(_)
Escape(text) ==
  IF text = <<>> THEN <<>>
  ELSE (IF Head(text) = "LF" THEN <<"BS", "n">>
        ELSE IF Head(text) = "BS" THEN <<"BS", "BS">>
        ELSE <<Head(text)>>) \o Escape(Tail(text))

\* JSON.parse accepts the line: blanks around the word null or an object
IsJson(line) ==
  \A t \in {Trim(line)} :
    \/ t = <<"null">>
    \/ /\ Len(t) >= 2
       /\ t[1] = "{"
       /\ t[Len(t)] = "}"
       /\ WellEscaped(SubSeq(t, 2, Len(t) - 1))

\* JSON.parse(line) inside its try: null when it throws
JsonParse(line) ==
  IF ~IsJson(line) THEN Null
  ELSE IF Trim(line) = <<"null">> THEN Null
  ELSE [text |-> Unescape(SubSeq(Trim(line), 2, Len(Trim(line)) - 1))]

\* JSON.stringify(m)
Stringify(m) == <<"{">> \o Escape(m.text) \o <<"}">>

\* truncated.map((m) => JSON.stringify(m)).join("\n") + "\n"
RECURSIVE NewContent(_)
NewContent(records) ==
  IF Len(records) = 0 THEN <<"LF">>
  ELSE IF Len(records) = 1 THEN Stringify(records[1]) \o <<"LF">>
  ELSE Stringify(Head(records)) \o <<"LF">> \o NewContent(Tail(records))

\* readJSONL(filePath) for the text of the file, or for a file that is missing
ReadJSONL(content) ==
  IF content = Missing THEN <<>>
  ELSE IF \A i \in 1..Len(content) : content[i] \in {"SP", "LF"} THEN <<>>
  ELSE LET lines == SelectSeq(Split(content), LAMBDA line : Trim(line) # <<>>)
           parsed == [i \in 1..Len(lines) |-> JsonParse(lines[i])]
       IN SelectSeq(parsed, LAMBDA obj : obj # Null)

\* the lines a file may hold: empty, blank, objects, an object cut short, an
\* object with a broken escape, two objects on a line, the word null
LineTexts ==
  {<<>>, <<"SP">>, <<"{", "x", "}">>, <<"SP", "{", "}", "SP">>,
   <<"{", "BS", "n", "}">>, <<"{", "BS", "BS", "n", "}">>, <<"{", "x">>,
   <<"{", "BS", "}">>,
   <<"{", "}", "{", "}">>, <<"null">>}

RECURSIVE Join(_)
Join(lines) ==
  IF Len(lines) = 0 THEN <<>>
  ELSE IF Len(lines) = 1 THEN lines[1]
  ELSE Head(lines) \o <<"LF">> \o Join(Tail(lines))

FileTexts ==
  {Join(lines) : lines \in UNION {[1..n -> LineTexts] : n \in 0..MaxLines}}

InitJsonl ==
  /\ Fresh
  /\ walk = NoWalk
  /\ rewrite = NoRewrite
  /\ listing = NoListing
  /\ summary = NoSummary
  /\ rewind = NoRewind
  /\ clock = NoClock
  /\ tasks = NoTasks
  /\ duel = NoDuel
  /\ index = NoIndex
  /\ chat = NoChat
  /\ catalog = NoCatalog
  /\ jsonl \in {[NoJsonl EXCEPT !.content = c] : c \in FileTexts \cup {Missing}}

\* the rewrite of restoreCheckpoint writes the records it keeps of those it
\* read, or one record of its own when it keeps none
WriteNewContent ==
  /\ jsonl.pc = "read"
  /\ ~jsonl.rewritten
  /\ \E cutIndex \in 0..Len(jsonl.result) :
       \E truncated \in {IF cutIndex = 0 THEN <<[text |-> <<"x">>]>>
                          ELSE SubSeq(jsonl.result, 1, cutIndex)} :
         jsonl' = [jsonl EXCEPT !.content = NewContent(truncated), !.pc = "stored",
                                !.rewritten = TRUE, !.written = truncated]
  /\ UNCHANGED sessionVars
  /\ UNCHANGED jsonlRest

\* the file is read
ReadFile ==
  /\ jsonl.pc = "stored"
  /\ jsonl' = [jsonl EXCEPT !.pc = "read", !.result = ReadJSONL(jsonl.content)]
  /\ UNCHANGED sessionVars
  /\ UNCHANGED jsonlRest

NextJsonl == WriteNewContent \/ ReadFile

SpecJsonl == InitJsonl /\ [][NextJsonl]_vars

\* ------------------------------------------------------ the session summary
\* generateSummary and the summary of _scanSessionInfo. A text is a sequence
\* of characters, LF the line feed and SP a blank. The values a parsed record
\* may carry are strings, numbers, null, undefined, arrays and objects with a
\* type and a text.
SummaryLimit == 45

NoPrompt == <<"N", "o", "SP", "p", "r", "o", "m", "p", "t">>

Ellipsis == <<".", ".", ".">>

Undef == [kind |-> "undefined"]

JsNull == [kind |-> "null"]

Str(text) == [kind |-> "string", text |-> text]

Num(n) == [kind |-> "number", n |-> n]

Arr(items) == [kind |-> "array", items |-> items]

Obj(type, text) == [kind |-> "object", type |-> type, text |-> text]

\* a record of the log as generateSummary and _scanSessionInfo read it
Rec(type, meta, uuid, message, text, leafUuid) ==
  [type |-> type, isMeta |-> meta, uuid |-> uuid, message |-> message,
   summary |-> text, leafUuid |-> leafUuid]

\* a value in a condition
Truthy(v) ==
  /\ v.kind \notin {"undefined", "null"}
  /\ v # Str(<<>>)
  /\ v # Num(0)

\* the loop over the records: the record that is held when the loop is left
RECURSIVE FirstUserMessage(_, _)
FirstUserMessage(messages, firstUserMessage) ==
  IF messages = <<>> THEN firstUserMessage
  ELSE IF Head(messages).type = "user" /\ ~Head(messages).isMeta
  THEN FirstUserMessage(Tail(messages), Head(messages))
  ELSE IF firstUserMessage # Undef THEN firstUserMessage
  ELSE FirstUserMessage(Tail(messages), firstUserMessage)

\* firstUserMessage.message?.content
ContentOf(msg) ==
  IF msg.message.kind \in {"undefined", "null"} THEN Undef ELSE msg.message.content

\* the text taken from the content, or the exception of the property access
\* item.type on null or undefined
ExtractText(content) ==
  IF content.kind = "string" THEN [threw |-> FALSE, text |-> content]
  ELSE IF content.kind = "array"
  THEN IF \E i \in 1..Len(content.items) :
            content.items[i].kind \in {"null", "undefined"}
       THEN [threw |-> TRUE, text |-> Undef]
       ELSE LET textItems == SelectSeq(content.items,
                               LAMBDA item : item.kind = "object" /\ item.type = "text")
            IN [threw |-> FALSE,
                text |-> IF Len(textItems) > 0 /\ Truthy(textItems[Len(textItems)].text)
                         THEN textItems[Len(textItems)].text
                         ELSE Str(NoPrompt)]
  ELSE [threw |-> FALSE, text |-> Str(NoPrompt)]

\* text.replace(/\n/g, " ")
Collapse(text) == [i \in 1..Len(text) |-> IF text[i] = "LF" THEN "SP" ELSE text[i]]

\* the text is kept whole
Slice_Whole(text, n) == text

\* text.slice(0, n)
Slice(text, n) == SubSeq(text, 1, IF n < Len(text) THEN n ELSE Len(text))

\* the last lines of generateSummary
Shorten(text) ==
  LET t == Trim(Collapse(text))
  IN IF Len(t) > SummaryLimit THEN Slice(t, SummaryLimit) \o Ellipsis ELSE t

\* generateSummary(messages): the string it returns, or the exception that
\* leaves it (a property of null, replace of a value that is no string)
GenerateSummary(messages) ==
  LET firstUserMessage == FirstUserMessage(messages, Undef)
  IN IF firstUserMessage = Undef THEN [threw |-> FALSE, value |-> NoPrompt]
     ELSE LET e == ExtractText(ContentOf(firstUserMessage))
          IN IF e.threw \/ e.text.kind # "string"
             THEN [threw |-> TRUE, value |-> <<>>]
             ELSE [threw |-> FALSE, value |-> Shorten(e.text.text)]

\* the summary records are not looked at
SummaryOfLeaf_KeepsDerived(messages, leafUuid, summ) == summ

\* the loop of _scanSessionInfo over the records: msg.summary || summary of
\* the first summary record of the leaf
RECURSIVE SummaryOfLeaf(_, _, _)
SummaryOfLeaf(messages, leafUuid, summ) ==
  IF messages = <<>> THEN summ
  ELSE IF Head(messages).type = "summary" /\ Head(messages).leafUuid = leafUuid
  THEN IF Truthy(Head(messages).summary) THEN Head(messages).summary.text ELSE summ
  ELSE SummaryOfLeaf(Tail(messages), leafUuid, summ)

\* the texts around the limit: blanks and line feeds before and after a body
\* of n characters, with or without a line feed inside
Pads == UNION {[1..n -> {"SP", "LF"}] : n \in 0..MaxPad}

Body(n, inner) ==
  [i \in 1..n |-> IF inner /\ i = 2 THEN "LF"
                  ELSE IF i > SummaryLimit THEN "y" ELSE "x"]

Texts ==
  {lead \o Body(n, inner) \o trail :
     lead \in Pads, trail \in Pads, n \in 0..(SummaryLimit + 2), inner \in BOOLEAN}

UserRec(uuid, message) == Rec("user", FALSE, uuid, message, Undef, 0)

Message(content) == [kind |-> "message", content |-> content]

\* the shapes of the payload of a user record
ItemShapes ==
  {JsNull, Num(5), Str(<<"x">>), Obj("image", Undef), Obj("text", Undef),
   Obj("text", Str(<<>>)), Obj("text", Str(<<"x">>)), Obj("text", Num(5))}

PayloadShapes ==
  {Undef, Message(Undef), Message(JsNull), Message(Num(5)), Message(Str(<<>>))}
    \cup {Message(Arr(items)) :
            items \in UNION {[1..n -> ItemShapes] : n \in 0..MaxItems}}

\* the records of a log: user records with a text or with segments, a meta
\* user record, an assistant record, summary records of a leaf
UserContents ==
  {Str(<<"a">>), Str(<<"b">>),
   Arr(<<Obj("text", Str(<<"a">>)), Obj("text", Str(<<"c">>)), Obj("image", Undef)>>)}

RecordKinds ==
  {Rec("user", FALSE, 0, Message(c), Undef, 0) : c \in UserContents}
    \cup {Rec("user", TRUE, 0, Message(Str(<<"m">>)), Undef, 0),
          Rec("assistant", FALSE, 0, Message(Arr(<<>>)), Undef, 0)}
    \cup {Rec("summary", FALSE, 0, Undef, t, l) :
            t \in {Undef, Str(<<>>), Str(<<"s">>)}, l \in 1..MaxRecs}

\* a record of a log at its place: a summary record has no uuid
Placed(r, i) == IF r.type = "summary" THEN r ELSE [r EXCEPT !.uuid = i]

\* the logs of one user record: the texts and the shapes of its payload
SingleInputs ==
  {<<UserRec(1, Message(Str(t)))>> : t \in Texts}
    \cup {<<UserRec(1, p)>> : p \in PayloadShapes}

InitSummary ==
  /\ Fresh
  /\ walk = NoWalk
  /\ rewrite = NoRewrite
  /\ listing = NoListing
  /\ jsonl = NoJsonl
  /\ rewind = NoRewind
  /\ clock = NoClock
  /\ tasks = NoTasks
  /\ duel = NoDuel
  /\ index = NoIndex
  /\ chat = NoChat
  /\ catalog = NoCatalog
  /\ summary \in {[NoSummary EXCEPT !.messages = m, !.pc = "read"] : m \in SingleInputs}
                   \cup {[NoSummary EXCEPT !.pc = "build"]}

\* the log under study gets one more record
AppendKind ==
  /\ summary.pc = "build"
  /\ Len(summary.messages) < MaxRecs
  /\ \E r \in RecordKinds :
       summary' = [summary EXCEPT
                     !.messages = Append(@, Placed(r, Len(summary.messages) + 1))]
  /\ UNCHANGED sessionVars
  /\ UNCHANGED summaryRest

\* let summary = generateSummary(messages)
CallGenerateSummary ==
  /\ summary.pc = "read" \/ (summary.pc = "build" /\ Len(summary.messages) > 0)
  /\ \E g \in {GenerateSummary(summary.messages)} :
       summary' = [summary EXCEPT !.pc = IF g.threw THEN "threw" ELSE "generated",
                                  !.derived = g.value, !.value = g.value]
  /\ UNCHANGED sessionVars
  /\ UNCHANGED summaryRest

\* the summary of the SessionInfo
CheckSummaryRecords ==
  /\ summary.pc = "generated"
  /\ summary' = [summary EXCEPT !.pc = "done",
       !.value = SummaryOfLeaf(summary.messages,
                   summary.messages[Len(summary.messages)].uuid, summary.derived)]
  /\ UNCHANGED sessionVars
  /\ UNCHANGED summaryRest

NextSummary == AppendKind \/ CallGenerateSummary \/ CheckSummaryRecords

SpecSummary == InitSummary /\ [][NextSummary]_vars

\* ----------------------------------------------- records of every kind
\* getSession and listSessions on a log whose records are of any kind, meta or
\* not, each with no parent or an earlier record as parent; the log is read
\* once its records are written
RecordTypes == {"user", "assistant", "system", "attachment", "summary"}

\* the writer appends a record of any kind
AppendAnyRecord ==
  /\ ret.op \in {"init", "append"}
  /\ Len(log) < MaxVis
  /\ \E p \in {NoParent} \cup Uuids(log),
        k \in (RecordTypes \X {FALSE}) \cup {<<"user", TRUE>>, <<"system", TRUE>>} :
       log' = Append(log, Msg(FreshUuid(log), p, k[1], k[2], <<>>))
  /\ mtime' = NextMtime(mtime, cache)
  /\ ret' = Ret("append")
  /\ UNCHANGED <<cache, fs, snapLog, pending, nextTool, rewound>>
  /\ UNCHANGED studyVars

NextVisible == AppendAnyRecord \/ GetSession \/ ListSessions

SpecVisible == Init /\ [][NextVisible]_vars

\* -------------------------------------------- the rewind, step by step
\* restoreCheckpoint as the sequence of its statements; the session was built
\* by turns whose tools ran, and was listed or not
\* the file is read, the chain built and filtered
ReadAndResolve ==
  /\ rewind.pc = "idle"
  /\ Idle
  /\ Len(log) > 0
  /\ \E messageIndex \in -1..Len(log) :
       rewind' = [NoRewind EXCEPT !.pc = "validate", !.messageIndex = messageIndex,
                    !.messages = log, !.visible = Visible(BuildChain(log)),
                    !.steps = <<"resolve">>]
  /\ ret' = Ret("restoreCheckpoint")
  /\ UNCHANGED <<log, mtime, cache, fs, snapLog, pending, nextTool, rewound>>
  /\ UNCHANGED rewindRest

\* the way out through the outer catch
Thrown(error) ==
  /\ rewind' = [rewind EXCEPT !.pc = "returned", !.error = error]
  /\ cache' = CacheAfter(cache, error)
  /\ ret' = Failed([Ret("restoreCheckpoint") EXCEPT
                      !.messageIndex = rewind.messageIndex], error)
  /\ rewound' = TRUE

\* the index is checked against the visible transcript
ValidateIndex ==
  /\ rewind.pc = "validate"
  /\ IF InvalidIndex(rewind.messageIndex, rewind.visible)
     THEN Thrown("InvalidIndex")
     ELSE /\ rewind' = [rewind EXCEPT !.pc = "cut",
                          !.target = rewind.visible[rewind.messageIndex + 1]]
          /\ UNCHANGED <<cache, ret, rewound>>
  /\ UNCHANGED <<log, mtime, fs, snapLog, pending, nextTool>>
  /\ UNCHANGED rewindRest

\* the cut index, and the tool invocations of the records after it
ComputeCut ==
  /\ rewind.pc = "cut"
  /\ IF FindIndex(rewind.messages, rewind.target.uuid) < 0
     THEN Thrown("TargetNotFound")
     ELSE /\ \E cutIndex \in {CutIndex(rewind.messages, rewind.target)} :
               rewind' = [rewind EXCEPT !.pc = "workspace", !.cutIndex = cutIndex,
                            !.todo = RestoreOrder(RemovedToolUseIds(
                                       Removed(rewind.messages, cutIndex))),
                            !.steps = Append(@, "cut")]
          /\ UNCHANGED <<cache, ret, rewound>>
  /\ UNCHANGED <<log, mtime, fs, snapLog, pending, nextTool>>
  /\ UNCHANGED rewindRest

\* restoreWorkspaceFilesFromSnapshots restores the next id, or throws
RestoreNext ==
  /\ rewind.pc = "workspace"
  /\ rewind.todo # <<>>
  /\ \E ioFail \in {{}, {"f"}}, throws \in BOOLEAN :
       IF throws
       THEN /\ rewind' = [rewind EXCEPT !.todo = <<>>]
            /\ fs' = fs
       ELSE /\ rewind' = [rewind EXCEPT !.todo = Tail(@)]
            /\ fs' = ApplySnapshot(
                       [fs |-> fs, restored |-> 0, missing |-> 0, errors |-> 0],
                       snapLog, SessionId, Head(rewind.todo), ioFail).fs
  /\ UNCHANGED <<log, mtime, cache, snapLog, pending, nextTool, rewound, ret>>
  /\ UNCHANGED rewindRest

\* the workspace rewind is over: the records to keep
TruncateRecords ==
  /\ rewind.pc = "workspace"
  /\ rewind.todo = <<>>
  /\ rewind' = [rewind EXCEPT !.pc = "write",
                  !.truncated = AvoidEmpty(Truncated(rewind.messages, rewind.cutIndex),
                                           SessionId, Cwd),
                  !.steps = Append(@, "workspace")]
  /\ UNCHANGED sessionVars
  /\ UNCHANGED rewindRest

\* fs.writeFile of the new content
WriteLog ==
  /\ rewind.pc = "write"
  /\ \E writeFault \in {"none", "open", "truncated"} :
       /\ log' = WriteFile(log, rewind.truncated, writeFault)
       /\ mtime' = IF writeFault = "open" THEN mtime ELSE NextMtime(mtime, cache)
       /\ IF writeFault = "none"
          THEN /\ rewind' = [rewind EXCEPT !.pc = "evict", !.steps = Append(@, "write")]
               /\ UNCHANGED <<cache, ret, rewound>>
          ELSE Thrown("PersistFailure")
  /\ UNCHANGED <<fs, snapLog, pending, nextTool>>
  /\ UNCHANGED rewindRest

\* this._sessionCache.delete(filePath)
EvictCache ==
  /\ rewind.pc = "evict"
  /\ cache' = CacheAfter(cache, "none")
  /\ rewind' = [rewind EXCEPT !.pc = "return", !.steps = Append(@, "evict")]
  /\ UNCHANGED <<log, mtime, fs, snapLog, pending, nextTool, rewound, ret>>
  /\ UNCHANGED rewindRest

\* the restored prefix is returned
ReturnRestored ==
  /\ rewind.pc = "return"
  /\ rewind' = [rewind EXCEPT !.pc = "returned"]
  /\ ret' = [Ret("restoreCheckpoint") EXCEPT
               !.messageIndex = rewind.messageIndex, !.target = rewind.target,
               !.cutIndex = rewind.cutIndex,
               !.value = RestoredPrefix(rewind.visible, rewind.messageIndex)]
  /\ rewound' = TRUE
  /\ UNCHANGED <<log, mtime, cache, fs, snapLog, pending, nextTool>>
  /\ UNCHANGED rewindRest

NextSteps ==
  \/ rewind.pc = "idle" /\ Idle /\ AppendTurn
  \/ rewind.pc = "idle" /\ RecordSnapshot
  \/ rewind.pc = "idle" /\ ToolRuns
  \/ rewind.pc = "idle" /\ Idle /\ ListSessions
  \/ ReadAndResolve
  \/ ValidateIndex
  \/ ComputeCut
  \/ RestoreNext
  \/ TruncateRecords
  \/ WriteLog
  \/ EvictCache
  \/ ReturnRestored

SpecSteps == Init /\ [][NextSteps]_vars

\* ------------------------------------------ the cache and the file times
\* listings, appends and rewinds of a session whose file takes the time of the
\* system as modification time at every write. The time moves on before every
\* write, so that a write always changes the modification time of the file;
\* the environment may set the time of the system back.
Stamp ==
  /\ clock.now < MaxClock
  /\ clock' = [clock EXCEPT !.now = @ + 1]
  /\ mtime' = clock.now + 1

\* the writer appends a record after the last one
StampedAppend ==
  /\ Len(log) < MaxLog
  /\ \E t \in {"user", "assistant"} :
       log' = Append(log, Msg(FreshUuid(log),
                IF Len(log) = 0 THEN NoParent ELSE log[Len(log)].uuid, t, FALSE, <<>>))
  /\ Stamp
  /\ ret' = Ret("append")
  /\ UNCHANGED <<cache, fs, snapLog, pending, nextTool, rewound>>
  /\ UNCHANGED clockRest

\* a rewind that succeeds
StampedRewind ==
  /\ \E messageIndex \in 0..(Len(log) - 1) :
       \E o \in {RestoreCheckpointOutcome(log, mtime, cache, fs, snapLog,
                   messageIndex, "none", {}, FALSE)} :
         /\ o.ret.target # Null /\ o.ret.error = "none"
         /\ log' = o.log
         /\ cache' = o.cache
         /\ ret' = o.ret
  /\ Stamp
  /\ rewound' = TRUE
  /\ UNCHANGED <<fs, snapLog, pending, nextTool>>
  /\ UNCHANGED clockRest

\* the time of the system is set back by two units or more
ClockSetBack ==
  /\ \E n \in 0..(clock.now - 2) : clock' = [now |-> n, setBack |-> TRUE]
  /\ UNCHANGED sessionVars
  /\ UNCHANGED clockRest

NextCache == StampedAppend \/ StampedRewind \/ ListSessions \/ ClockSetBack

SpecCache == Init /\ [][NextCache]_vars

\* ------------------------------------------------- the names of the files
\* the task of listSessions for one file of the project directory, whose name
\* is a sequence of characters
Jsonl == <<".", "j", "s", "o", "n", "l">>

HexDigits == {"0", "9", "a", "f", "A", "F"}

\* the lengths of the groups of hexadecimal digits of UUID_REGEX
GroupLengths == <<8, 4, 4, 4, 12>>

\* file.endsWith(suffix)
EndsWith(file, suffix) ==
  /\ Len(file) >= Len(suffix)
  /\ SubSeq(file, Len(file) - Len(suffix) + 1, Len(file)) = suffix

\* path.basename(filePath, ext) of a path whose last component is file
Basename(file, ext) ==
  IF EndsWith(file, ext) /\ file # ext
  THEN SubSeq(file, 1, Len(file) - Len(ext))
  ELSE file

\* the positions of the dashes of UUID_REGEX
RECURSIVE DashPositions(_, _)
DashPositions(lengths, at) ==
  IF Len(lengths) <= 1 THEN {}
  ELSE {at + Head(lengths) + 1} \cup DashPositions(Tail(lengths), at + Head(lengths) + 1)

\* the test without the anchor at the end
UuidRegexTest_Unanchored(id) ==
  /\ Len(id) >= 36
  /\ \A i \in 1..36 :
       IF i \in DashPositions(GroupLengths, 0) THEN id[i] = "-" ELSE id[i] \in HexDigits

\* UUID_REGEX.test(id)
UuidRegexTest(id) ==
  /\ Len(id) = 36
  /\ \A i \in 1..36 :
       IF i \in DashPositions(GroupLengths, 0) THEN id[i] = "-" ELSE id[i] \in HexDigits

\* validateSessionId(id): the id, or null
ValidateSessionId(id) == IF UuidRegexTest(id) THEN id ELSE <<>>

\* _scanSessionInfo(filePath) of a file that holds the given number of records
ScanNamed(file, records, mt) ==
  IF records = 0 THEN Null
  ELSE IF ValidateSessionId(Basename(file, Jsonl)) = <<>> THEN Null
  ELSE [id |-> ValidateSessionId(Basename(file, Jsonl)), lastModified |-> mt,
        messageCount |-> records]

\* the names: a UUID of one digit, with one character replaced, with a
\* character less or with characters more, and an extension
UuidOf(c) ==
  [i \in 1..36 |-> IF i \in DashPositions(GroupLengths, 0) THEN "-" ELSE c]

BaseNames ==
  UNION {{UuidOf(c)}
           \cup {[UuidOf(c) EXCEPT ![i] = x] : i \in {1, 9, 10, 36}, x \in {"g", "-", "F"}}
           \cup {SubSeq(UuidOf(c), 1, 35), SubSeq(UuidOf(c), 2, 36)}
           \cup {UuidOf(c) \o extra :
                   extra \in UNION {[1..n -> {"a", "LF"}] : n \in 1..MaxExtra}}
           \cup {<<"x">> \o UuidOf(c)} :
         c \in {"0", "a", "F"}} \cup {<<>>}

Extensions ==
  {<<>>, Jsonl, <<".", "j", "s", "o", "n">>, Jsonl \o <<".", "b", "a", "k">>,
   <<".", "J", "S", "O", "N", "L">>, <<"j", "s", "o", "n", "l">>}

FileNames == {base \o ext : base \in BaseNames, ext \in Extensions}

InitCatalog ==
  /\ Fresh
  /\ walk = NoWalk
  /\ rewrite = NoRewrite
  /\ listing = NoListing
  /\ jsonl = NoJsonl
  /\ summary = NoSummary
  /\ rewind = NoRewind
  /\ clock = NoClock
  /\ tasks = NoTasks
  /\ duel = NoDuel
  /\ index = NoIndex
  /\ chat = NoChat
  /\ catalog \in {[NoCatalog EXCEPT !.name = n, !.records = r] :
                    n \in FileNames, r \in {0, 1}}

\* the file is written: it holds records or none, and has one of the times
FileWritten ==
  /\ \E r \in {0, 1}, mt \in Mtimes :
       /\ <<r, mt>> # <<catalog.records, catalog.mtime>>
       /\ catalog' = [catalog EXCEPT !.records = r, !.mtime = mt, !.pc = "idle",
                                     !.sessions = <<>>]
  /\ UNCHANGED sessionVars
  /\ UNCHANGED catalogRest

\* listSessions of the directory that holds the file
ListFile ==
  /\ catalog.pc = "idle"
  /\ IF ~EndsWith(catalog.name, Jsonl)
     THEN catalog' = [catalog EXCEPT !.pc = "listed", !.sessions = <<>>]
     ELSE IF catalog.cache # NoEntry /\ catalog.cache.mtime = catalog.mtime
     THEN catalog' = [catalog EXCEPT !.pc = "listed", !.sessions = <<catalog.cache.info>>]
     ELSE \E info \in {ScanNamed(catalog.name, catalog.records, catalog.mtime)} :
            IF info # Null
            THEN catalog' = [catalog EXCEPT !.pc = "listed", !.sessions = <<info>>,
                               !.cache = [mtime |-> catalog.mtime, info |-> info]]
            ELSE catalog' = [catalog EXCEPT !.pc = "listed", !.sessions = <<>>]
  /\ UNCHANGED sessionVars
  /\ UNCHANGED catalogRest

NextCatalog == FileWritten \/ ListFile

SpecCatalog == InitCatalog /\ [][NextCatalog]_vars

\* --------------------------------------------- listings beside the writers
\* Two calls of listSessions, each followed through the task of the session's
\* file from one await to the next, beside the writer of the log and a rewind.
\* The call that starts first is the call 1. The time of the system is set
\* back once at most.
\* Each task notes what happened to the file while it ran: `moved` a write
\* between its first stat and its read, `late` a rewind's write after its
\* read, `raced` a rewind's write while it ran, `disturbed` any write or
\* eviction while it ran, `single` the entry that a listing alone would have
\* stored when the call started, `overlapped` that
\* the other call ran at the same time, `afterRewind` that it started when a
\* rewind had completed and none was under way.
IdleTask == NoTasks.run[1]

InFlight(t) == t.pc \notin {"idle", "done"}

Other(i) == 3 - i

\* the entry is stored without the time of the stat
CacheEntry_Unstamped(mt, info) == [mtime |-> 0, info |-> info]

\* { mtime: stat.mtime.getTime(), info }
CacheEntry(mt, info) == [mtime |-> mt, info |-> info]

\* what a write of the file means for a call that runs or has returned
Touch(t, kind) ==
  IF ~InFlight(t) THEN t
  ELSE [t EXCEPT !.disturbed = TRUE,
                 !.moved = @ \/ t.pc \in {"statted", "miss", "scanning"},
                 !.late = @ \/ (kind = "rewind" /\ t.pc = "read"),
                 !.raced = @ \/ (kind = "rewind" /\ InFlight(t))]

\* await fs.stat(filePath) of the task: the stat fails when there is no file
TaskStat(i) ==
  /\ tasks.run[i].pc = "idle"
  /\ i = 2 => tasks.run[1].pc # "idle"
  /\ tasks' = [tasks EXCEPT
       !.run[i] = [IdleTask EXCEPT
                     !.pc = IF Len(log) = 0 THEN "done" ELSE "statted",
                     !.mtime = IF Len(log) = 0 THEN -1 ELSE mtime,
                     !.single = ListSessionsOutcome(log, mtime, NoEntry).cache,
                     !.overlapped = InFlight(tasks.run[Other(i)]),
                     !.afterRewind = rewound /\ tasks.rewind = "idle"],
       !.run[Other(i)].overlapped = @ \/ InFlight(tasks.run[Other(i)])]
  /\ ret' = Ret("listTask")
  /\ UNCHANGED <<log, mtime, cache, fs, snapLog, pending, nextTool, rewound>>
  /\ UNCHANGED tasksRest

\* the task resumes: the entry of the cache is pushed if its time is the time
\* of the stat; otherwise _scanSessionInfo is called
TaskLookup(i) ==
  /\ tasks.run[i].pc = "statted"
  /\ tasks' = [tasks EXCEPT !.run[i] =
       IF CacheHit(cache, tasks.run[i].mtime)
       THEN [@ EXCEPT !.pc = "done", !.mtime = -1, !.hit = TRUE,
                      !.pushed = cache.info,
                      !.hitAfterRewind = rewound /\ tasks.rewind = "idle",
                      !.hitStale = tasks.entryStale]
       ELSE [@ EXCEPT !.pc = "miss"]]
  /\ ret' = Ret("listTask")
  /\ UNCHANGED <<log, mtime, cache, fs, snapLog, pending, nextTool, rewound>>
  /\ UNCHANGED tasksRest

\* await fs.stat(filePath) of _scanSessionInfo
TaskScanStat(i) ==
  /\ tasks.run[i].pc = "miss"
  /\ tasks' = [tasks EXCEPT !.run[i].pc = "scanning",
                            !.run[i].lastModified = mtime]
  /\ ret' = Ret("listTask")
  /\ UNCHANGED <<log, mtime, cache, fs, snapLog, pending, nextTool, rewound>>
  /\ UNCHANGED tasksRest

\* await readJSONL(filePath) of _scanSessionInfo
TaskRead(i) ==
  /\ tasks.run[i].pc = "scanning"
  /\ tasks' = [tasks EXCEPT !.run[i].pc = "read", !.run[i].messages = log]
  /\ ret' = Ret("listTask")
  /\ UNCHANGED <<log, mtime, cache, fs, snapLog, pending, nextTool, rewound>>
  /\ UNCHANGED tasksRest

\* the scan returns its info, which is stored with the time of the task's
\* stat and pushed; null is neither stored nor pushed
TaskStore(i) ==
  /\ tasks.run[i].pc = "read"
  /\ \E info \in {ScanSessionInfo(tasks.run[i].messages, tasks.run[i].lastModified)} :
       IF info = Null
       THEN /\ tasks' = [tasks EXCEPT !.run[i] =
                 [@ EXCEPT !.pc = "done", !.mtime = -1, !.lastModified = -1,
                           !.messages = <<>>]]
            /\ cache' = cache
       ELSE /\ cache' = CacheEntry(tasks.run[i].mtime, info)
            /\ tasks' = [tasks EXCEPT
                 !.run[i] = [@ EXCEPT !.pc = "done", !.mtime = -1,
                                !.lastModified = -1, !.messages = <<>>,
                                !.pushed = info,
                                !.stored = CacheEntry(tasks.run[i].mtime, info)],
                 !.entryStale = tasks.run[i].late,
                 !.entryMoved = tasks.run[i].moved]
  /\ ret' = Ret("listTask")
  /\ UNCHANGED <<log, mtime, fs, snapLog, pending, nextTool, rewound>>
  /\ UNCHANGED tasksRest

\* the writer appends a record to the log
WriterAppends ==
  /\ Len(log) < MaxLog
  /\ log' = Append(log, Msg(FreshUuid(log),
              IF Len(log) = 0 THEN NoParent ELSE log[Len(log)].uuid,
              "user", FALSE, <<>>))
  /\ Stamp
  /\ tasks' = [tasks EXCEPT !.run = [i \in 1..2 |-> Touch(tasks.run[i], "append")]]
  /\ ret' = Ret("append")
  /\ UNCHANGED <<cache, fs, snapLog, pending, nextTool, rewound>>
  /\ UNCHANGED raceRest

\* restoreCheckpoint up to the end of its fs.writeFile; one rewind is followed
RewindWrites ==
  /\ tasks.rewind = "idle"
  /\ ~rewound
  /\ \E messageIndex \in 0..(Len(log) - 1) :
       \E o \in {RestoreCheckpointOutcome(log, mtime, cache, fs, snapLog,
                   messageIndex, "none", {}, FALSE)} :
         /\ o.ret.target # Null /\ o.ret.error = "none"
         /\ log' = o.log
  /\ Stamp
  /\ tasks' = [tasks EXCEPT
       !.run = [i \in 1..2 |-> Touch(tasks.run[i], "rewind")],
       !.rewind = "written",
       !.entryStale = (cache # NoEntry)]
  /\ ret' = Ret("restoreCheckpoint")
  /\ UNCHANGED <<cache, fs, snapLog, pending, nextTool, rewound>>
  /\ UNCHANGED raceRest

\* restoreCheckpoint resumes after the write: this._sessionCache.delete
RewindEvicts ==
  /\ tasks.rewind = "written"
  /\ cache' = CacheAfter(cache, "none")
  /\ tasks' = [tasks EXCEPT
       !.run = [i \in 1..2 |-> IF ~InFlight(tasks.run[i]) THEN tasks.run[i]
                               ELSE [tasks.run[i] EXCEPT !.disturbed = TRUE]],
       !.rewind = "idle", !.entryStale = FALSE, !.entryMoved = FALSE]
  /\ rewound' = TRUE
  /\ ret' = Ret("restoreCheckpoint")
  /\ UNCHANGED <<log, mtime, fs, snapLog, pending, nextTool>>
  /\ UNCHANGED tasksRest

\* the time of the system is set back, once
TimeSetBack ==
  /\ ~clock.setBack
  /\ ClockSetBack

NextRace ==
  \/ \E i \in 1..2 : TaskStat(i)
  \/ \E i \in 1..2 : TaskLookup(i)
  \/ \E i \in 1..2 : TaskScanStat(i)
  \/ \E i \in 1..2 : TaskRead(i)
  \/ \E i \in 1..2 : TaskStore(i)
  \/ WriterAppends

SpecRace == Init /\ [][NextRace]_vars

\* a call of listSessions that nothing else runs beside: the steps of its task
\* follow one another
ListSessionsAtOnce ==
  /\ \E o \in {ListSessionsOutcome(log, mtime, cache)} :
       /\ cache' = o.cache
       /\ ret' = Ret("listSessions")
       /\ tasks' = [tasks EXCEPT
            !.run[2] = [IdleTask EXCEPT
               !.pc = "done",
               !.hit = CacheHit(cache, mtime),
               !.afterRewind = rewound /\ tasks.rewind = "idle",
               !.hitAfterRewind = CacheHit(cache, mtime) /\ rewound
                                    /\ tasks.rewind = "idle",
               !.hitStale = CacheHit(cache, mtime) /\ tasks.entryStale],
            !.entryStale = IF o.cache = cache THEN @ ELSE FALSE,
            !.entryMoved = IF o.cache = cache THEN @ ELSE FALSE]
  /\ UNCHANGED <<log, mtime, fs, snapLog, pending, nextTool, rewound>>
  /\ UNCHANGED tasksRest

\* one call of listSessions followed from one await to the next beside the
\* writer and rewinds, and calls of listSessions that run between their steps
NextEvict ==
  \/ TaskStat(1)
  \/ TaskLookup(1)
  \/ TaskScanStat(1)
  \/ TaskRead(1)
  \/ TaskStore(1)
  \/ WriterAppends
  \/ RewindWrites
  \/ RewindEvicts
  \/ TimeSetBack
  \/ ListSessionsAtOnce

SpecEvict == Init /\ [][NextEvict]_vars

\* ------------------------------------------------- two rewinds of a session
\* Two calls of restoreCheckpoint on the session, each followed from one await
\* to the next: the read of the log, the restore of the workspace files, the
\* write of the log, and the eviction with the return. The call that reads
\* first is the call 1. `start` is the log and the workspace when the first
\* call read, `order` the calls in the order they read, `overlapped` that the
\* second call read before the first returned.
Rewinding(r) == r.pc \notin {"idle", "done"}

\* the restore of the workspace is never awaited
AfterRead_SkipsRestore(todo) == "write"

\* if (removedToolUseIds.length > 0) await restoreWorkspaceFilesFromSnapshots
AfterRead(todo) == IF todo # <<>> THEN "restore" ELSE "write"

\* what restoreCheckpoint holds in its locals when it resumes after readJSONL
\* and has run up to its next await
Resolved(messages, messageIndex) ==
  LET visible == Visible(BuildChain(messages))
      blank == [pc |-> "done", messageIndex |-> messageIndex, error |-> "none",
                todo |-> <<>>, content |-> <<>>]
  IN IF Len(messages) = 0 THEN blank
     ELSE IF InvalidIndex(messageIndex, visible)
     THEN [blank EXCEPT !.error = "InvalidIndex"]
     ELSE IF FindIndex(messages, visible[messageIndex + 1].uuid) < 0
     THEN [blank EXCEPT !.error = "TargetNotFound"]
     ELSE LET cutIndex == CutIndex(messages, visible[messageIndex + 1])
              todo == RestoreOrder(RemovedToolUseIds(Removed(messages, cutIndex)))
          IN [blank EXCEPT
                !.pc = AfterRead(todo),
                !.todo = todo,
                !.content = AvoidEmpty(Truncated(messages, cutIndex), SessionId, Cwd)]

\* await readJSONL(filePath), and the call up to its next await
DuelReads(i) ==
  /\ Idle
  /\ Len(log) > 0
  /\ duel.run[i].pc = "idle"
  /\ i = 2 => duel.run[1].pc # "idle"
  /\ \E messageIndex \in 0..(Len(log) - 1) :
       duel' = [duel EXCEPT
         !.run[i] = Resolved(log, messageIndex),
         !.started = TRUE,
         !.overlapped = @ \/ Rewinding(duel.run[Other(i)]),
         !.order = Append(@, i),
         !.start = IF duel.started THEN @ ELSE [log |-> log, fs |-> fs]]
  /\ ret' = Ret("restoreCheckpoint")
  /\ UNCHANGED <<log, mtime, cache, fs, snapLog, pending, nextTool, rewound>>
  /\ UNCHANGED duelRest

\* await restoreWorkspaceFilesFromSnapshots, its files restored one after the
\* other without another step between them
DuelRestores(i) ==
  /\ duel.run[i].pc = "restore"
  /\ fs' = RestoreWorkspaceFilesFromSnapshots(fs, snapLog, SessionId,
             duel.run[i].todo, {}).fs
  /\ duel' = [duel EXCEPT !.run[i].pc = "write"]
  /\ ret' = Ret("restoreCheckpoint")
  /\ UNCHANGED <<log, mtime, cache, snapLog, pending, nextTool, rewound>>
  /\ UNCHANGED duelRest

\* await fs.writeFile(filePath, newContent)
DuelWrites(i) ==
  /\ duel.run[i].pc = "write"
  /\ log' = duel.run[i].content
  /\ mtime' = NextMtime(mtime, cache)
  /\ duel' = [duel EXCEPT !.run[i].pc = "evict"]
  /\ ret' = Ret("restoreCheckpoint")
  /\ UNCHANGED <<cache, fs, snapLog, pending, nextTool, rewound>>
  /\ UNCHANGED duelRest

\* this._sessionCache.delete(filePath) and the return
DuelReturns(i) ==
  /\ duel.run[i].pc = "evict"
  /\ cache' = CacheAfter(cache, "none")
  /\ duel' = [duel EXCEPT !.run[i].pc = "done"]
  /\ rewound' = TRUE
  /\ ret' = Ret("restoreCheckpoint")
  /\ UNCHANGED <<log, mtime, fs, snapLog, pending, nextTool>>
  /\ UNCHANGED duelRest

\* turns whose tools run, then the two rewinds
NextDuel ==
  \/ ~duel.started /\ Idle /\ AppendTurn
  \/ RecordSnapshot
  \/ ToolRuns
  \/ \E i \in 1..2 : DuelReads(i)
  \/ \E i \in 1..2 : DuelRestores(i)
  \/ \E i \in 1..2 : DuelWrites(i)
  \/ \E i \in 1..2 : DuelReturns(i)

SpecDuel == Init /\ [][NextDuel]_vars

\* ------------------------------------------------- the index of a snapshot log
\* The lines of a snapshot log as loadWorkspaceSnapshotsByToolUseId meets
\* them: a line of blanks, a line that is no JSON text, a JSON text that is
\* no object (null, a number), and an object with its toolUseId, sessionId
\* and content. The toolUseId 0 stands for an id that is absent or empty.
OtherSession == "s2"

SnapshotLines ==
  {[kind |-> k, toolUseId |-> 0, sessionId |-> "none", content |-> ""] :
     k \in {"blank", "malformed", "scalar"}}
  \cup {[kind |-> "entry", toolUseId |-> t, sessionId |-> sid, content |-> c] :
          t \in 0..MaxTools, sid \in {SessionId, OtherSession}, c \in Contents}

\* JSON.parse(trimmed): throws for a text that is no JSON
ParseLine(line) ==
  IF line.kind = "malformed" THEN [threw |-> TRUE, entry |-> Null]
  ELSE IF line.kind = "scalar" THEN [threw |-> FALSE, entry |-> Null]
  ELSE [threw |-> FALSE, entry |-> line]

\* entry?.toolUseId && entry?.sessionId === sessionId
Accepted(entry, sessionId) ==
  entry # Null /\ entry.toolUseId # 0 /\ entry.sessionId = sessionId

\* the first entry of an id is kept
MapSet_KeepsFirst(snapshots, entry) == snapshots @@ (entry.toolUseId :> entry)

\* snapshots.set(entry.toolUseId, entry)
MapSet(snapshots, entry) == (entry.toolUseId :> entry) @@ snapshots

\* the loop over raw.split('\n')
RECURSIVE LoadLines(_, _, _)
LoadLines(lines, sessionId, snapshots) ==
  IF lines = <<>> THEN snapshots
  ELSE LET line == Head(lines)
           parsed == ParseLine(line)
       IN IF line.kind = "blank" \/ parsed.threw
             \/ ~Accepted(parsed.entry, sessionId)
          THEN LoadLines(Tail(lines), sessionId, snapshots)
          ELSE LoadLines(Tail(lines), sessionId, MapSet(snapshots, parsed.entry))

\* loadWorkspaceSnapshotsByToolUseId({ cwd, sessionId }) on the snapshot log
LoadWorkspaceSnapshotsByToolUseId(file, sessionId) ==
  IF file.missing
  THEN [snapshots |-> <<>>, error |-> "none"]
  ELSE [snapshots |-> LoadLines(file.lines, sessionId, <<>>), error |-> "none"]

\* a line is added at the end of the snapshot log, which is created with it
SnapshotLineAdded ==
  /\ Len(index.lines) < MaxLines
  /\ \E line \in SnapshotLines :
       index' = [NoIndex EXCEPT !.missing = FALSE, !.lines = Append(index.lines, line)]
  /\ UNCHANGED sessionVars
  /\ UNCHANGED indexRest

\* the snapshot log is deleted
SnapshotLogDeleted ==
  /\ ~index.missing
  /\ index' = NoIndex
  /\ UNCHANGED sessionVars
  /\ UNCHANGED indexRest

\* the index of a session is loaded
LoadIndex ==
  /\ index.pc = "idle"
  /\ \E sid \in {SessionId, OtherSession} :
       \E r \in {LoadWorkspaceSnapshotsByToolUseId(index, sid)} :
         index' = [index EXCEPT !.pc = "loaded", !.sessionId = sid,
                                !.snapshots = r.snapshots, !.error = r.error]
  /\ UNCHANGED sessionVars
  /\ UNCHANGED indexRest

NextIndex == SnapshotLineAdded \/ SnapshotLogDeleted \/ LoadIndex

SpecIndex == Init /\ [][NextIndex]_vars

\* ------------------------------------------------ a log without any record
\* the session file is deleted, or replaced by a file without a line that
\* parses: readJSONL returns no record from then on
LogLost ==
  /\ Len(log) > 0
  /\ log' = <<>>
  /\ Stamp
  /\ ret' = Ret("lost")
  /\ UNCHANGED <<cache, fs, snapLog, pending, nextTool, rewound>>
  /\ UNCHANGED clockRest

\* the session is written, listed and rewound, and its file can be lost; a
\* rewind of the session without records is tried with any index
NextGone ==
  \/ StampedAppend
  \/ StampedRewind
  \/ ListSessions
  \/ LogLost
  \/ Len(log) = 0 /\ RestoreCheckpoint(FALSE)

SpecGone == Init /\ [][NextGone]_vars

\* ---------------------------------------------------- the readers of a session
\* turns whose tools run and are snapshotted, and the session read and listed
\* at any moment between the steps
NextReads ==
  \/ Idle /\ AppendTurn
  \/ RecordSnapshot
  \/ ToolRuns
  \/ GetSession
  \/ ListSessions

SpecReads == Init /\ [][NextReads]_vars

\* ------------------------------------------------- the queue of the chat page
\* The chat page (src/src/webview/src/pages/ChatPage.vue) with the queue of
\* its session. A queued message is its id, which is new for every message.
\* `sends` are the queued messages passed to session.send, in the order of the
\* calls, `pending` the number of these calls that have not settled, `direct`
\* a call of send by handleSubmit that has not settled, `ticks` the callbacks
\* of the watcher of isBusy that nextTick has still to run. The session is not
\* part of the page: a call of send may leave it busy at once or later, it
\* becomes idle when its work ends or is interrupted, and a call of send
\* settles with or without an error at any moment.
Range(seq) == {seq[i] : i \in 1..Len(seq)}

\* the message stays in the queue while it is sent
Shift_LeavesHead(queue) == [msg |-> Head(queue), rest |-> queue]

\* const msg = currentQueue.shift(); s.queuedMessages.value = currentQueue
Shift(queue) == [msg |-> Head(queue), rest |-> Tail(queue)]

\* processQueue() up to its await of s.send; sendBusy when the session is busy
\* as soon as send was called
ProcessQueue(c, sendBusy) ==
  IF c.queue = <<>> \/ c.busy THEN c
  ELSE [c EXCEPT !.queue = Shift(c.queue).rest,
                 !.sends = Append(@, Shift(c.queue).msg),
                 !.pending = @ + 1,
                 !.busy = sendBusy]

\* currentQueue.splice(index, 1); currentQueue.unshift(msg)
MoveToHead(queue, id) ==
  <<id>> \o SelectSeq(queue, LAMBDA m : m # id)

\* handleQueueMessage(content): a text of blanks without attachments is not
\* queued
HandleQueueMessage ==
  /\ chat.nextId <= MaxQueued
  /\ \E blank \in BOOLEAN :
       chat' = IF blank /\ chat.attachments = 0
               THEN [chat EXCEPT !.last = "queueMessage"]
               ELSE [chat EXCEPT !.queue = Append(@, chat.nextId),
                                 !.nextId = @ + 1,
                                 !.attachments = 0,
                                 !.last = "queueMessage"]
  /\ UNCHANGED sessionVars
  /\ UNCHANGED chatRest

\* handleRemoveFromQueue(id)
HandleRemoveFromQueue ==
  /\ \E id \in Range(chat.queue) :
       chat' = [chat EXCEPT !.queue = SelectSeq(@, LAMBDA m : m # id),
                            !.last = "removeFromQueue"]
  /\ UNCHANGED sessionVars
  /\ UNCHANGED chatRest

\* handleSendNow(id): the message moves to the head; a busy session is
\* interrupted, an idle one has its queue processed at once
HandleSendNow ==
  /\ \E id \in Range(chat.queue), sendBusy \in BOOLEAN :
       chat' = IF chat.busy
               THEN [chat EXCEPT !.queue = MoveToHead(@, id), !.last = "sendNow"]
               ELSE [ProcessQueue([chat EXCEPT !.queue = MoveToHead(@, id)], sendBusy)
                       EXCEPT !.last = "sendNow"]
  /\ UNCHANGED sessionVars
  /\ UNCHANGED chatRest

\* handleSubmit(content) of an idle session, up to its await of s.send
HandleSubmit ==
  /\ ~chat.busy
  /\ ~chat.direct
  /\ \E sendBusy \in BOOLEAN :
       chat' = [chat EXCEPT !.direct = TRUE, !.busy = sendBusy, !.last = "submit"]
  /\ UNCHANGED sessionVars
  /\ UNCHANGED chatRest

\* handleSubmit resumes: the attachments are cleared after a send that
\* succeeded
SubmitSettles ==
  /\ chat.direct
  /\ \E ok \in BOOLEAN :
       chat' = [chat EXCEPT !.direct = FALSE,
                            !.attachments = IF ok THEN 0 ELSE @,
                            !.last = "submitSettled"]
  /\ UNCHANGED sessionVars
  /\ UNCHANGED chatRest

\* processQueue resumes after s.send, which resolved or threw: a message whose
\* send failed is dropped
SendSettles ==
  /\ chat.pending > 0
  /\ chat' = [chat EXCEPT !.pending = @ - 1, !.last = "sendSettled"]
  /\ UNCHANGED sessionVars
  /\ UNCHANGED chatRest

\* the session starts to work on a message it was sent
SessionBecomesBusy ==
  /\ ~chat.busy
  /\ chat.pending > 0 \/ chat.direct
  /\ chat' = [chat EXCEPT !.busy = TRUE, !.last = "busy"]
  /\ UNCHANGED sessionVars
  /\ UNCHANGED chatRest

\* the work of the session ends or is interrupted: the watcher of isBusy
\* passes processQueue to nextTick
SessionBecomesIdle ==
  /\ chat.busy
  /\ chat.ticks < MaxTicks
  /\ chat' = [chat EXCEPT !.busy = FALSE, !.ticks = @ + 1, !.last = "idle"]
  /\ UNCHANGED sessionVars
  /\ UNCHANGED chatRest

\* the callback of nextTick runs processQueue
TickRuns ==
  /\ chat.ticks > 0
  /\ \E sendBusy \in BOOLEAN :
       chat' = [ProcessQueue([chat EXCEPT !.ticks = @ - 1], sendBusy)
                  EXCEPT !.last = "tick"]
  /\ UNCHANGED sessionVars
  /\ UNCHANGED chatRest

\* handleAddAttachment(files)
HandleAddAttachment ==
  /\ chat.attachments = 0
  /\ chat' = [chat EXCEPT !.attachments = 1, !.last = "addAttachment"]
  /\ UNCHANGED sessionVars
  /\ UNCHANGED chatRest

\* handleRemoveAttachment(id)
HandleRemoveAttachment ==
  /\ chat.attachments = 1
  /\ chat' = [chat EXCEPT !.attachments = 0, !.last = "removeAttachment"]
  /\ UNCHANGED sessionVars
  /\ UNCHANGED chatRest

NextChat ==
  \/ HandleQueueMessage
  \/ HandleRemoveFromQueue
  \/ HandleSendNow
  \/ HandleSubmit
  \/ SubmitSettles
  \/ SendSettles
  \/ SessionBecomesBusy
  \/ SessionBecomesIdle
  \/ TickRuns
  \/ HandleAddAttachment
  \/ HandleRemoveAttachment

SpecChat == Init /\ [][NextChat]_vars

\* the page under a session that always ends its work and settles every send,
\* whose callbacks run, and a user who goes on changing the attachments
SpecChatFair ==
  /\ SpecChat
  /\ WF_vars(TickRuns)
  /\ WF_vars(SessionBecomesIdle)
  /\ WF_vars(SendSettles)
  /\ WF_vars(SubmitSettles)
  /\ WF_vars(HandleAddAttachment \/ HandleRemoveAttachment)


\* ===================================================================== claims
Rewound == ret.op = "restoreCheckpoint" /\ ret.target # Null

RewoundOk == Rewound /\ ret.error = "none"

Take(seq, n) == SubSeq(seq, 1, IF n < Len(seq) THEN n ELSE Len(seq))

\* C1: after restoreCheckpoint(k) completed, an immediate getSession returns
\* exactly the messages restoreCheckpoint returned as the restored prefix.
C1_RewindThenGetSession ==
  RewoundOk => GetSessionResult(log) = ret.value

\* C2: a completed rewind never leaves a log without records: when the cut
\* leaves nothing the log is exactly one synthetic system/meta record carrying
\* the session id and the working directory, and the session is still listed.
C2_NeverEmptyLog ==
  RewoundOk =>
    /\ Len(log) >= 1
    /\ ret.cutIndex < 0 =>
         /\ Len(log) = 1
         /\ log[1].type = "system" /\ log[1].isMeta
         /\ log[1].sessionId = SessionId /\ log[1].cwd = Cwd
    /\ LET listed == ListSessionsOutcome(log, mtime, cache).sessions
       IN Len(listed) = 1 /\ listed[1].id = SessionId
                          /\ listed[1].messageCount = Len(log)

C2_Witness ==
  /\ RewoundOk
  /\ ret.messageIndex = 0 /\ ret.cutIndex = -1
  /\ log = <<SyntheticRecord(SessionId, Cwd)>>

\* C3: a messageIndex outside 0 <= messageIndex < len(visible) makes
\* restoreCheckpoint fail with an invalid-index error that reaches the caller.
C3_InvalidIndexPropagates ==
  (ret.op = "restoreCheckpoint" /\ ret.error = "InvalidIndex") => ret.propagated

\* C4: a failure while writing the truncated log reaches the caller as an
\* error of the rewind; it is never reported as a normal result.
C4_PersistFailurePropagates ==
  (ret.op = "restoreCheckpoint" /\ ret.error = "PersistFailure") => ret.propagated

\* C5: a rewind that fails while resolving the target or computing the cut has
\* no effect: the session log, its modification time, the workspace files, the
\* snapshot log and the catalog cache are unchanged and no snapshot is applied.
C5_AbortHasNoEffect ==
  [][(ret'.op = "restoreCheckpoint"
        /\ ret'.error \in {"InvalidIndex", "TargetNotFound"})
     => /\ log' = log /\ mtime' = mtime /\ fs' = fs
        /\ snapLog' = snapLog /\ cache' = cache
        /\ ~ret'.called]_vars

C5_Witness ==
  /\ ret.op = "restoreCheckpoint" /\ ret.error = "InvalidIndex"
  /\ cache # NoEntry /\ Len(log) > 0 /\ Len(snapLog) > 0

\* C6: after a successful rewind the log holds neither the target nor a record
\* that was appended after the target; when the target's parentUuid resolves,
\* the last record of the rewritten log is that parent.
C6_TargetAndTailRemoved ==
  [][(ret'.op = "restoreCheckpoint" /\ ret'.target # Null /\ ret'.error = "none")
     => LET t == ret'.target
            at == CHOOSE i \in 1..Len(log) : log[i] = t
        IN /\ \A i \in 1..Len(log') : \A j \in at..Len(log) : log'[i] # log[j]
           /\ (t.parentUuid # NoParent /\ t.parentUuid \in Uuids(log))
                => log'[Len(log')].uuid = t.parentUuid]_vars

C6_Witness ==
  /\ RewoundOk
  /\ ret.target.parentUuid = log[Len(log)].uuid
  /\ ret.cutIndex + 1 = Len(log)
  /\ ret.messageIndex > 0

\* the log [A(user), B(assistant, parent = A), C(user, parent = B)]
ScenarioABC(messages) ==
  /\ Len(messages) = 3
  /\ messages[1] = Msg(messages[1].uuid, NoParent, "user", FALSE, <<>>)
  /\ messages[2] = Msg(messages[2].uuid, messages[1].uuid, "assistant", FALSE, <<>>)
  /\ messages[3] = Msg(messages[3].uuid, messages[2].uuid, "user", FALSE, <<>>)

\* C7 as stated: on the log [A, B, C] a rewind with messageIndex = 1 targets C
\* and truncates the log to [A, B].
C7_AsStated ==
  [][(ScenarioABC(log) /\ ret'.op = "restoreCheckpoint" /\ ret'.messageIndex = 1
        /\ ret'.error = "none")
     => ret'.target = log[3] /\ log' = SubSeq(log, 1, 2)]_vars

\* C7 amended: on the log [A, B, C] the visible transcript is [A, B, C], so
\* messageIndex = 2 targets C and truncates the log to [A, B]; messageIndex = 1
\* targets B and truncates it to [A].
C7_Scenario ==
  [][(ScenarioABC(log) /\ ret'.op = "restoreCheckpoint"
        /\ ret'.messageIndex \in {1, 2})
     => LET k == ret'.messageIndex
        IN /\ ret'.target = log[k + 1]
           /\ ret'.cutIndex = k - 1
           /\ ret'.error = "none" => log' = SubSeq(log, 1, k)]_vars

C7_Witness ==
  /\ RewoundOk
  /\ ret.messageIndex = 2
  /\ ret.target = Msg(3, 2, "user", FALSE, <<>>)
  /\ log = <<Msg(1, NoParent, "user", FALSE, <<>>),
             Msg(2, 1, "assistant", FALSE, <<>>)>>

\* C8: restoreCheckpoint(k) returns exactly the first k elements of what
\* getSession returns on the log before the rewind, and its target is the
\* record behind element k of that sequence.
C8_PrefixOfGetSession ==
  [][(ret'.op = "restoreCheckpoint" /\ ret'.target # Null /\ ret'.error = "none")
     => LET k == ret'.messageIndex
            shown == GetSessionResult(log)
        IN /\ k < Len(shown)
           /\ ret'.value = Take(shown, k)
           /\ ConvertMessage(ret'.target) = shown[k + 1]]_vars

C8_Witness ==
  /\ RewoundOk
  /\ ret.messageIndex = 2
  /\ Len(ret.value) = 2
  /\ ret.value[1].session_id # ret.value[2].session_id

\* the ids of the mutating tool invocations of the records from position i on,
\* in file order
RECURSIVE MutatingIdsFrom(_, _)
MutatingIdsFrom(messages, i) ==
  IF i > Len(messages) THEN <<>>
  ELSE LET m == messages[i]
           blocks == IF m.type = "assistant"
                     THEN SelectSeq(m.content, LAMBDA b :
                            b.name \in {"Write", "Edit", "MultiEdit", "NotebookEdit"})
                     ELSE <<>>
       IN [j \in 1..Len(blocks) |-> blocks[j].id] \o MutatingIdsFrom(messages, i + 1)

\* C9: snapshot restore is called with the removed tool-invocation ids in
\* reverse file order, so that a file several removed invocations had
\* snapshots of ends, when its restores succeed, in the state captured for the
\* earliest of them.
C9_ReverseOrderUnwinds ==
  [][(ret'.op = "restoreCheckpoint" /\ ret'.called)
     => \A ids \in {MutatingIdsFrom(log, ret'.cutIndex + 2)} :
          /\ Len(ret'.toolUseIds) = Len(ids)
          /\ \A i \in 1..Len(ids) : ret'.toolUseIds[i] = ids[Len(ids) + 1 - i]
          /\ (~ret'.storeThrew /\ ret'.errors = 0 /\ ret'.ioFail = {}) =>
               \A p \in Paths :
                 \A S \in {{i \in 1..Len(ids) :
                              /\ SnapshotHas(snapLog, SessionId, ids[i])
                              /\ SnapshotGet(snapLog, SessionId, ids[i]).filePath = p}} :
                   S # {} =>
                     \A e \in {SnapshotGet(snapLog, SessionId,
                                  ids[CHOOSE i \in S : \A j \in S : i <= j])} :
                       fs'[p] = IF e.kind = "file" THEN e.content
                                ELSE IF e.kind = "missing" THEN Absent
                                ELSE fs[p]]_vars

C9_Witness ==
  /\ RewoundOk /\ ret.called
  /\ Len(ret.toolUseIds) = 2 /\ ret.restored = 2
  /\ ret.toolUseIds[1] > ret.toolUseIds[2]
  /\ SnapshotGet(snapLog, SessionId, ret.toolUseIds[1]).filePath = "f"
  /\ SnapshotGet(snapLog, SessionId, ret.toolUseIds[1]).kind = "file"
  /\ SnapshotGet(snapLog, SessionId, ret.toolUseIds[2]).filePath = "f"
  /\ SnapshotGet(snapLog, SessionId, ret.toolUseIds[2]).kind = "missing"
  /\ fs["f"] = Absent

\* C10: a failure of the workspace restore (an id without snapshot, a file that
\* cannot be written, an exception of the snapshot store) does not abort the
\* rewind: unless the write of the log fails, the log is truncated at the cut,
\* the cache entry is evicted and the visible prefix is returned.
C10_WorkspaceFailureNotFatal ==
  [][(ret'.op = "restoreCheckpoint" /\ ret'.called
        /\ (ret'.storeThrew \/ ret'.missing > 0 \/ ret'.errors > 0))
     => /\ ret'.error \in {"none", "PersistFailure"}
        /\ ret'.error = "none" =>
             /\ log' = IF ret'.cutIndex >= 0
                       THEN SubSeq(log, 1, ret'.cutIndex + 1)
                       ELSE <<SyntheticRecord(SessionId, Cwd)>>
             /\ cache' = NoEntry
             /\ ret'.value = Take(GetSessionResult(log), ret'.messageIndex)]_vars

C10_Witness ==
  /\ RewoundOk /\ ret.called
  /\ ret.errors > 0 /\ ret.missing > 0
  /\ cache = NoEntry
  /\ Len(log) = 1 /\ Len(ret.value) = 1

\* C11: after a restoreCheckpoint that succeeded the cache holds no entry for
\* the rewritten file, and a listSessions made then reports the session with a
\* messageCount equal to the number of records of the rewritten file and the
\* modification time of the rewritten file, whatever the cache held before.
C11_EvictedThenRescanned ==
  RewoundOk =>
    /\ cache = NoEntry
    /\ \A o \in {ListSessionsOutcome(log, mtime, cache)} :
         /\ Len(o.sessions) = 1
         /\ o.sessions[1].id = SessionId
         /\ o.sessions[1].messageCount = Len(log)
         /\ o.sessions[1].lastModified = mtime
         /\ o.cache = [mtime |-> mtime, info |-> o.sessions[1]]

\* a rewind that removed records while the cache held the listing made before
C11_Witness ==
  /\ RewoundOk /\ ret.evicted
  /\ ret.cutIndex = 0 /\ Len(log) = 1
  /\ cache = NoEntry

\* C12: the chain the walk built ends with the last record of the file and is
\* ordered by ancestry: every element after the first has the uuid of the
\* element before it as parentUuid, and the first element has no parentUuid or
\* one that no record of the file carries.
C12_ChainByAncestry ==
  (walk.pc = "done" /\ walk.op # "none" /\ Len(walk.messages) > 0) =>
    \A t \in {walk.transcript} :
      /\ Len(t) >= 1
      /\ t[Len(t)] = walk.messages[Len(walk.messages)]
      /\ \A i \in 2..Len(t) : t[i].parentUuid = t[i - 1].uuid
      /\ \/ t[1].parentUuid = NoParent
         \/ \A j \in 1..Len(walk.messages) : walk.messages[j].uuid # t[1].parentUuid
      /\ \A i \in 1..Len(t) : \E j \in 1..Len(walk.messages) : walk.messages[j] = t[i]

\* a chain of three records that is not in file order
C12_Witness ==
  /\ walk.pc = "done" /\ walk.op = "restoreCheckpoint"
  /\ Len(walk.transcript) = 3
  /\ walk.transcript[1].uuid = 2
  /\ walk.transcript[1].parentUuid = Dangling
  /\ walk.transcript[2].uuid = 1

\* C13: the walk terminates for every record sequence, also when the
\* parentUuid references form a cycle or a record names itself as parent.
C13_WalkTerminates == <>(walk.pc = "done")

\* C14: a getSession or listSessions that runs while restoreCheckpoint rewrites
\* the log observes the complete content from before the rewind or the
\* complete content after it: getSession returns the transcript of one of the
\* two, listSessions lists the session with the record count of one of the two.
C14_ReadersSeeOldOrNew ==
  [][(rewrite.pc # "idle" /\ UNCHANGED rewrite) =>
       /\ ret'.op = "getSession" =>
            ret'.value \in {GetSessionResult(rewrite.old), GetSessionResult(rewrite.new)}
       /\ ret'.op = "listSessions" =>
            /\ Len(ret'.value) = 1
            /\ ret'.value[1].messageCount \in {Len(rewrite.old), Len(rewrite.new)}]_vars

\* a restore of the stand-alone store for the single id of a snapshot
RestoredOne(r) ==
  /\ r.op = "restoreWorkspaceFiles"
  /\ Len(r.toolUseIds) = 1
  /\ SnapshotHas(snapLog, SessionId, r.toolUseIds[1])

C17_ClassifiesPreState ==
  [][Len(snapLog') = Len(snapLog) + 1 =>
       \A e \in {snapLog'[Len(snapLog')]} :
         /\ e.kind = "file" <=> fs[e.filePath] \in Contents
         /\ e.kind = "file" => e.content = fs[e.filePath]
         /\ e.kind = "other" <=> fs[e.filePath] = Directory
         /\ e.kind = "missing" => fs[e.filePath] = Absent]_vars

\* C18: listSessions returns the sessions its tasks pushed, whatever the files
\* and the order the tasks completed in, sorted by lastModified descending.
C18_SortedByLastModified ==
  listing.pc = "done" =>
    \A r \in {listing.result} :
      /\ \A i, j \in 1..Len(r) : i < j => r[i].lastModified >= r[j].lastModified
      /\ Len(r) = Len(listing.sessions)
      /\ \A f \in 1..MaxFiles :
           Cardinality({i \in 1..Len(r) : r[i].id = f})
             = Cardinality({i \in 1..Len(r) : listing.sessions[i].id = f})

\* the task of the older session completed first
C18_Witness ==
  /\ listing.pc = "done"
  /\ Len(listing.sessions) = 2
  /\ listing.sessions[1].lastModified < listing.sessions[2].lastModified
  /\ listing.result = <<listing.sessions[2], listing.sessions[1]>>

\* C19: listSessions and getSession propagate no error: an unreadable
\* directory gives an empty listing, a file that cannot be read or holds no
\* record gives an empty transcript, and a file whose scan fails removes no
\* other session: every readable session file of the directory is listed.
C19_DegradeAndIsolate ==
  /\ listing.pc = "done" =>
       /\ ~listing.propagated
       /\ listing.readdirThrew => listing.result = <<>>
       /\ ~listing.readdirThrew =>
            \A f \in 1..MaxFiles :
              listing.dir[f].status = "session" =>
                \E i \in 1..Len(listing.result) :
                  /\ listing.result[i].id = f
                  /\ listing.result[i].lastModified = listing.dir[f].mtime
  /\ listing.read # Null =>
       /\ ~listing.read.propagated
       /\ Len(listing.read.value) =
            (IF listing.dir[listing.read.file].status = "session" THEN 1 ELSE 0)

\* a file that cannot be read beside a session that is listed
C19_Witness ==
  /\ listing.pc = "done" /\ ~listing.readdirThrew
  /\ listing.dir[1].status = "session"
  /\ listing.dir[2].status = "unreadable"
  /\ listing.cache[2] # NoEntry
  /\ Len(listing.result) = 1
  /\ listing.result[1].id = 1

\* the values of the lines of a text that satisfy Valid, in the order of the file
ValuesOfLines(content, Valid(_)) ==
  LET lines == SelectSeq(Split(content), Valid)
  IN [i \in 1..Len(lines) |->
        IF Trim(lines[i]) = <<"null">> THEN JsonNull
        ELSE [text |-> Unescape(SubSeq(Trim(lines[i]), 2, Len(Trim(lines[i])) - 1))]]

\* C20 as stated: reading a log returns exactly the values of its
\* syntactically valid lines in file order, a missing file reads as empty, and
\* the records a rewrite wrote are read back as they were, in order.
C20_AsStated ==
  jsonl.pc = "read" =>
    /\ jsonl.content = Missing => jsonl.result = <<>>
    /\ jsonl.content # Missing =>
         jsonl.result = ValuesOfLines(jsonl.content, IsJson)
    /\ jsonl.rewritten => jsonl.result = jsonl.written

\* C20: reading a log returns exactly the values of its lines that are
\* syntactically valid and not the word null, in file order: malformed lines
\* and lines holding null are skipped, a missing file reads as empty, and the
\* records a rewrite wrote are read back as they were, in order.
C20_ReadsValidRecords ==
  jsonl.pc = "read" =>
    /\ jsonl.content = Missing => jsonl.result = <<>>
    /\ jsonl.content # Missing =>
         jsonl.result = ValuesOfLines(jsonl.content,
                          LAMBDA line : IsJson(line) /\ Trim(line) # <<"null">>)
    /\ jsonl.rewritten => jsonl.result = jsonl.written

\* two records read around a line cut short
C20_Witness ==
  /\ jsonl.pc = "read"
  /\ ~jsonl.rewritten
  /\ jsonl.content = <<"{", "x", "}", "LF", "{", "x", "LF", "{", "BS", "n", "}">>
  /\ jsonl.result = <<[text |-> <<"x">>], [text |-> <<"LF">>]>>

\* the log is one user record whose content is a string
StringInput ==
  /\ Len(summary.messages) = 1
  /\ summary.messages[1].type = "user" /\ ~summary.messages[1].isMeta
  /\ summary.messages[1].message.kind = "message"
  /\ summary.messages[1].message.content.kind = "string"

InputText == summary.messages[1].message.content.text

\* a text with its line feeds as blanks, from its first to its last character
\* that is no blank
Normalised(text) ==
  LET c == [i \in 1..Len(text) |-> IF text[i] = "LF" THEN "SP" ELSE text[i]]
      I == {i \in 1..Len(c) : c[i] # "SP"}
  IN IF I = {} THEN <<>>
     ELSE SubSeq(c, CHOOSE i \in I : \A j \in I : i <= j,
                    CHOOSE i \in I : \A j \in I : j <= i)

\* C21 as stated: an input text longer than 45 characters becomes its first 45
\* characters followed by the ellipsis marker, a text of 45 characters or
\* fewer is returned unchanged, both apart from the line feeds collapsed to
\* blanks.
C21_AsStated ==
  (summary.pc = "generated" /\ StringInput) =>
    summary.derived =
      IF Len(InputText) > SummaryLimit
      THEN Collapse(SubSeq(InputText, 1, SummaryLimit)) \o Ellipsis
      ELSE Collapse(InputText)

\* C21: summarize collapses the line feeds of the input text to blanks and
\* strips the blanks at both ends; a text that is then longer than 45
\* characters becomes its first 45 characters followed by the ellipsis marker,
\* a shorter one is returned as it then is.
C21_TruncatesNormalised ==
  (summary.pc = "generated" /\ StringInput) =>
    \A norm \in {Normalised(InputText)} :
      IF Len(norm) > SummaryLimit
      THEN /\ Len(summary.derived) = SummaryLimit + 3
           /\ \A i \in 1..SummaryLimit : summary.derived[i] = norm[i]
           /\ SubSeq(summary.derived, SummaryLimit + 1, SummaryLimit + 3) = Ellipsis
      ELSE summary.derived = norm

\* a blank, 46 characters and a line feed: 45 characters and the marker
C21_Witness ==
  /\ summary.pc = "generated" /\ StringInput
  /\ Len(InputText) = SummaryLimit + 3
  /\ InputText[1] = "SP" /\ InputText[Len(InputText)] = "LF"
  /\ summary.derived = [i \in 1..SummaryLimit |-> "x"] \o Ellipsis

\* C22: summarize never throws: for every shape of the payload of the first
\* user record it returns a string.
C22_NeverThrows == summary.pc # "threw"

\* the text of a user record of a log: its string, or its last text segment
TextOfUser(msg) ==
  LET content == msg.message.content
  IN IF content.kind = "string" THEN content.text
     ELSE LET T == {i \in 1..Len(content.items) :
                      content.items[i].kind = "object" /\ content.items[i].type = "text"}
          IN content.items[CHOOSE i \in T : \A j \in T : j <= i].text.text

\* C23: the derived summary is the text of the first non-meta user record in
\* file order (the last text segment of structured content), and the
\* no-prompt sentinel exactly when there is no such record.
C23_FirstUserRecord ==
  (summary.pc = "generated"
     /\ \A i \in 1..Len(summary.messages) :
          [summary.messages[i] EXCEPT !.uuid = 0] \in RecordKinds) =>
    LET U == {i \in 1..Len(summary.messages) :
                summary.messages[i].type = "user" /\ ~summary.messages[i].isMeta}
    IN IF U = {} THEN summary.derived = NoPrompt
       ELSE summary.derived = TextOfUser(summary.messages[CHOOSE i \in U : \A j \in U : i <= j])

\* the summary records of the current leaf, the last record of the log
LeafSummaries(messages) ==
  {i \in 1..Len(messages) :
     messages[i].type = "summary" /\ messages[i].leafUuid = messages[Len(messages)].uuid}

\* C24 as stated: when the log has a summary record of the current leaf the
\* summary of the SessionInfo is that record's text, otherwise it is the
\* derived summary.
C24_AsStated ==
  summary.pc = "done" =>
    IF LeafSummaries(summary.messages) # {}
    THEN \E i \in LeafSummaries(summary.messages) :
           summary.value = IF summary.messages[i].summary.kind = "string"
                           THEN summary.messages[i].summary.text ELSE <<>>
    ELSE summary.value = summary.derived

\* C24: the summary of the SessionInfo is the text of the first summary record
\* of the current leaf, in file order, when that record has a text that is not
\* empty; in every other case it is the derived summary.
C24_FirstLeafSummary ==
  summary.pc = "done" =>
    \A L \in {LeafSummaries(summary.messages)} :
      IF L # {}
      THEN \A first \in {CHOOSE i \in L : \A j \in L : i <= j} :
             summary.value =
               IF summary.messages[first].summary.kind = "string"
                  /\ summary.messages[first].summary.text # <<>>
               THEN summary.messages[first].summary.text
               ELSE summary.derived
      ELSE summary.value = summary.derived

\* a summary record of the leaf before the user record that is the leaf
C24_Witness ==
  /\ summary.pc = "done"
  /\ Len(summary.messages) = 2
  /\ summary.messages[1].type = "summary" /\ summary.messages[1].leafUuid = 2
  /\ summary.messages[2].type = "user" /\ summary.messages[2].uuid = 2
  /\ summary.derived = <<"a">>
  /\ summary.value = <<"s">>

\* C25: the visible transcript is the subsequence, in chain order, of exactly
\* the chain records that are not meta and are of kind user or assistant;
\* meta, system, attachment and summary records never appear; a chain without
\* such a record yields the empty sequence, not an error; a log of a single
\* meta record yields an empty transcript and a message count of 1.
C25_VisibleIsUserAssistant ==
  /\ ret.op = "getSession" =>
       \A chain \in {IF Len(log) = 0 THEN <<>> ELSE BuildChain(log)} :
         LET shown == SelectSeq(chain,
                        LAMBDA m : ~m.isMeta /\ m.type \in {"user", "assistant"})
         IN /\ ~ret.propagated /\ ret.error = "none"
            /\ Len(ret.value) = Len(shown)
            /\ \A i \in 1..Len(shown) :
                 /\ ret.value[i].session_id = shown[i].uuid
                 /\ ret.value[i].type = shown[i].type
                 /\ ret.value[i].message = shown[i].content
            /\ (Len(log) = 1 /\ log[1].isMeta) => ret.value = <<>>
  /\ (ret.op = "listSessions" /\ Len(log) = 1 /\ log[1].isMeta) =>
       /\ Len(ret.value) = 1
       /\ ret.value[1].messageCount = 1
       /\ GetSessionResult(log) = <<>>

\* a chain of a system record, a meta user record and an assistant record, of
\* which the assistant record alone is shown
C25_Witness ==
  /\ ret.op = "getSession"
  /\ Len(log) = 3
  /\ log[1].type = "system" /\ ~log[1].isMeta
  /\ log[2].type = "user" /\ log[2].isMeta /\ log[2].parentUuid = 1
  /\ log[3].type = "assistant" /\ log[3].parentUuid = 2
  /\ Len(ret.value) = 1 /\ ret.value[1].session_id = 3

\* the ids of the tool_use blocks with a mutating tool name in the assistant
\* records at the positions I of a log
MutatingIdsAt(messages, I) ==
  {messages[j].content[k].id :
     <<j, k>> \in {jk \in I \X (1..MaxTools) :
                     /\ messages[jk[1]].type = "assistant"
                     /\ jk[2] <= Len(messages[jk[1]].content)
                     /\ messages[jk[1]].content[jk[2]].type = "tool_use"
                     /\ messages[jk[1]].content[jk[2]].name
                          \in {"Write", "Edit", "MultiEdit", "NotebookEdit"}}}

\* C26: the tool-invocation ids passed to snapshot restore during a rewind are
\* exactly the ids of the tool_use blocks named Write, Edit, MultiEdit or
\* NotebookEdit in assistant records strictly after the cut index; the
\* snapshot of an invocation that appears only in retained records is never
\* applied.
C26_OnlyRemovedInvocations ==
  [][(ret'.op = "restoreCheckpoint" /\ ret'.target # Null)
     => \A passed \in {{ret'.toolUseIds[i] : i \in 1..Len(ret'.toolUseIds)}} :
          /\ passed = MutatingIdsAt(log, (ret'.cutIndex + 2)..Len(log))
          /\ ret'.called = (passed # {})
          /\ \A id \in MutatingIdsAt(log, 1..(ret'.cutIndex + 1)) \ passed :
               \A p \in Paths :
                 (SnapshotHas(snapLog, SessionId, id)
                    /\ SnapshotGet(snapLog, SessionId, id).filePath = p
                    /\ \A other \in passed :
                         ~(SnapshotHas(snapLog, SessionId, other)
                            /\ SnapshotGet(snapLog, SessionId, other).filePath = p))
                 => fs'[p] = fs[p]]_vars

\* the second of two edits is rewound, the first is retained with its snapshot
C26_Witness ==
  /\ RewoundOk
  /\ ret.toolUseIds = <<2>>
  /\ Len(log) = 1 /\ log[1].type = "assistant"
  /\ log[1].content = <<Block("Edit", 1, "f")>>
  /\ SnapshotHas(snapLog, SessionId, 1) /\ SnapshotHas(snapLog, SessionId, 2)
  /\ ret.restored = 1

\* C27: the log a successful restoreCheckpoint writes is either a proper
\* prefix, in file order, of the records read at its start (the records up to
\* and including the cut index, unmodified and in their order) or the single
\* synthetic meta record; it holds no other record that was not in the log.
C27_WritesProperPrefix ==
  [][(ret'.op = "restoreCheckpoint" /\ ret'.target # Null /\ ret'.error = "none")
     => \/ /\ ret'.cutIndex >= 0
           /\ Len(log') = ret'.cutIndex + 1
           /\ Len(log') < Len(log)
           /\ \A i \in 1..Len(log') : log'[i] = log[i]
        \/ /\ ret'.cutIndex < 0
           /\ log' = <<SyntheticRecord(SessionId, Cwd)>>
           /\ \A i \in 1..Len(log) : log[i] # log'[1]]_vars

\* a rewind that kept all but the last record of a full log
C27_Witness ==
  /\ RewoundOk
  /\ Len(log) = MaxLog - 1
  /\ ret.cutIndex = MaxLog - 2
  /\ log[Len(log)].uuid = ret.target.parentUuid

\* the steps of a rewind in their order
StepOrder == <<"resolve", "cut", "workspace", "write", "evict">>

\* C28: within one restoreCheckpoint the steps occur in the order resolve
\* target, compute cut, reverse workspace effects, rewrite log, invalidate
\* cache: no workspace file is restored before the index is validated, the
\* log is never rewritten before the workspace restore has finished, and the
\* cache entry is evicted only after the log write succeeded.
C28_StepsInOrder ==
  [][/\ rewind'.steps = SubSeq(StepOrder, 1, Len(rewind'.steps))
     /\ (rewind.pc # "idle" /\ fs' # fs) =>
          /\ rewind.steps = <<"resolve", "cut">>
          /\ ~InvalidIndex(rewind.messageIndex, rewind.visible)
          /\ log' = log /\ cache' = cache
     /\ (rewind.pc # "idle" /\ log' # log) =>
          /\ rewind.steps = <<"resolve", "cut", "workspace">>
          /\ rewind.todo = <<>>
          /\ fs' = fs /\ cache' = cache
     /\ (rewind.pc # "idle" /\ cache' # cache) =>
          /\ rewind.steps = <<"resolve", "cut", "workspace", "write">>
          /\ log = rewind.truncated
          /\ fs' = fs /\ log' = log]_vars

\* a rewind that restored a file, rewrote the log and evicted the cache entry
C28_Witness ==
  /\ rewind.pc = "returned" /\ rewind.error = "none"
  /\ rewind.steps = StepOrder
  /\ fs["f"] = Absent
  /\ Len(snapLog) > 0
  /\ log = rewind.truncated /\ Len(log) < Len(rewind.messages)
  /\ cache = NoEntry

\* what a full parse of the file would list
Reparsed(messages, mt) ==
  IF Len(messages) = 0 THEN <<>>
  ELSE <<[id |-> SessionId, lastModified |-> mt, messageCount |-> Len(messages)]>>

\* C29 as stated: every write changes the modification time of the file, and
\* every listing returns the SessionInfo a full reparse of the current content
\* would produce, after any sequence of listings, appends and rewinds.
C29_AsStated ==
  [][/\ log' # log => mtime' # mtime
     /\ ret'.op = "listSessions" => ret'.value = Reparsed(log, mtime)]_vars

\* C29: provided the modification time of the file grows with every change of
\* its content, so that the file never has a time again that it had with
\* another content, every listing returns the SessionInfo a full reparse of
\* the current content would produce, from the cache or from a fresh scan.
C29_CacheTransparent ==
  [][/\ log' # log => mtime' # mtime
     /\ (ret'.op = "listSessions" /\ ~clock.setBack) =>
          /\ ret'.value = Reparsed(log, mtime)
          /\ cache' # NoEntry => cache'.info = Reparsed(log, mtime)[1]
          /\ (cache # NoEntry /\ cache.mtime = mtime) => cache' = cache]_vars

\* a listing served from the cache after appends and a rewind
C29_Witness ==
  /\ ret.op = "listSessions"
  /\ ~clock.setBack
  /\ rewound
  /\ clock.now = MaxClock
  /\ Len(log) = 2
  /\ cache # NoEntry /\ cache.mtime = mtime /\ mtime = MaxClock

\* five groups of 8, 4, 4, 4 and 12 hexadecimal digits, of either case, joined
\* by dashes
StrictUuid(id) ==
  /\ Len(id) = 8 + 1 + 4 + 1 + 4 + 1 + 4 + 1 + 12
  /\ {i \in 1..Len(id) : id[i] = "-"} = {9, 14, 19, 24}
  /\ \A i \in 1..Len(id) :
       id[i] \in {"-", "0", "1", "2", "3", "4", "5", "6", "7", "8", "9",
                  "a", "b", "c", "d", "e", "f", "A", "B", "C", "D", "E", "F"}

\* C30 as stated: every SessionInfo listed has as id the base name, of strict
\* UUID shape, of a .jsonl file of the directory; files whose base name is no
\* UUID, files without the log extension and files with no parseable record
\* are never listed.
C30_AsStated ==
  catalog.pc = "listed" =>
    /\ \A i \in 1..Len(catalog.sessions) :
         /\ catalog.name = catalog.sessions[i].id \o Jsonl
         /\ StrictUuid(catalog.sessions[i].id)
    /\ catalog.records = 0 => catalog.sessions = <<>>

\* C30: every SessionInfo listed has as id the base name, of strict UUID
\* shape, of a .jsonl file of the directory; files whose base name is no UUID
\* and files without the log extension are never listed, and a file with no
\* parseable record is listed only from a cache entry of an earlier scan that
\* carries the file's current modification time.
C30_ListedIdsAreFileNames ==
  catalog.pc = "listed" =>
    /\ \A i \in 1..Len(catalog.sessions) :
         /\ catalog.name = catalog.sessions[i].id \o Jsonl
         /\ StrictUuid(catalog.sessions[i].id)
    /\ (catalog.records = 0 /\ catalog.sessions # <<>>) =>
         /\ catalog.cache # NoEntry
         /\ catalog.cache.mtime = catalog.mtime
         /\ catalog.sessions = <<catalog.cache.info>>
    /\ (catalog.records > 0 /\ catalog.name = Basename(catalog.name, Jsonl) \o Jsonl
          /\ StrictUuid(Basename(catalog.name, Jsonl))) =>
         Len(catalog.sessions) = 1

\* a file named by a UUID of upper case digits is listed
C30_Witness ==
  /\ catalog.pc = "listed"
  /\ catalog.name = UuidOf("F") \o Jsonl
  /\ catalog.records = 1
  /\ Len(catalog.sessions) = 1
  /\ catalog.sessions[1].id = UuidOf("F")
  /\ catalog.sessions[1].lastModified = 2

\* both calls of listSessions ran at the same time, both scanned the file and
\* stored an entry, and nothing wrote the file or the cache beside them
BothScannedInQuiet ==
  /\ \A i \in 1..2 : /\ tasks.run[i].pc = "done"
                     /\ ~tasks.run[i].hit
                     /\ tasks.run[i].stored # NoEntry
                     /\ tasks.run[i].overlapped
                     /\ ~tasks.run[i].disturbed

\* C31: when two calls of listSessions that run at the same time both find
\* the entry of the log file missing or stale, both rescan the file and both
\* store an entry; with no writer active the two stored entries are equal, and
\* the entry in the cache at the end is the one a single listing would have
\* stored.
C31_ConcurrentScansAgree ==
  BothScannedInQuiet =>
    /\ tasks.run[1].stored = tasks.run[2].stored
    /\ tasks.run[1].pushed = tasks.run[2].pushed
    /\ \A i \in 1..2 : tasks.run[i].stored = tasks.run[i].single
    /\ cache = tasks.run[2].stored
    /\ cache.info.lastModified = cache.mtime

\* both calls scanned a file of two records between each other's steps
C31_Witness ==
  /\ BothScannedInQuiet
  /\ Len(log) = 2
  /\ cache.info.messageCount = 2

\* C32 as stated: every cache hit that a call of listSessions serves after a
\* rewind completed describes the file as the rewind wrote it or as it was
\* written later, never records read before the rewind's write.
C32_AsStated ==
  \A i \in 1..2 :
    (tasks.run[i].pc = "done" /\ tasks.run[i].hitAfterRewind) =>
      ~tasks.run[i].hitStale

\* C32: provided the modification time of the log grows with every write, so
\* that the file never has a time again that it had before, every cache hit
\* served by a call of listSessions that started after a rewind completed,
\* with no other rewind writing while the call ran, describes the file as the
\* rewind wrote it or as it was written later; an entry that a call in flight
\* during the rewind stored from the records it read before the write is
\* never served as a hit to such a call.
C32_NoStaleHitAfterRewind ==
  \A i \in 1..2 :
    (/\ tasks.run[i].pc = "done"
     /\ tasks.run[i].hit
     /\ tasks.run[i].afterRewind
     /\ ~tasks.run[i].raced
     /\ ~clock.setBack) =>
      ~tasks.run[i].hitStale

\* the call in flight during a rewind stored the records it read before the
\* write, after the eviction; a later call rescanned the file, and the call
\* after that one is served from the cache
C32_Witness ==
  /\ ~clock.setBack
  /\ rewound
  /\ tasks.run[1].pc = "done"
  /\ tasks.run[1].late
  /\ tasks.run[1].stored # NoEntry
  /\ tasks.run[2].pc = "done"
  /\ tasks.run[2].hit
  /\ tasks.run[2].afterRewind
  /\ ~tasks.run[2].hitStale
  /\ cache.mtime = mtime
  /\ cache.mtime # tasks.run[1].stored.mtime

\* C38: every entry of the cache is consistent in itself, whatever runs
\* between the steps of listSessions: the modification time stored with the
\* entry is the lastModified of its SessionInfo, and the SessionInfo was
\* computed from the content the file had at that modification time.
C38_EntryConsistent ==
  cache # NoEntry =>
    /\ cache.mtime = cache.info.lastModified
    /\ ~tasks.entryMoved

\* the log and the workspace after restoreCheckpoint with the index of call a
\* and then, after its return, restoreCheckpoint with the index of call b,
\* from the log and the workspace the first call found
SerialOutcome(a, b) ==
  LET o1 == RestoreCheckpointOutcome(duel.start.log, 1, NoEntry, duel.start.fs,
              snapLog, duel.run[a].messageIndex, "none", {}, FALSE)
      o2 == RestoreCheckpointOutcome(o1.log, 1, NoEntry, o1.fs,
              snapLog, duel.run[b].messageIndex, "none", {}, FALSE)
  IN <<o2.log, o2.fs>>

BothReturned == \A i \in 1..2 : duel.run[i].pc = "done"

\* C33: nothing excludes a second restoreCheckpoint on the session while one
\* is under way. Two calls of which the second starts after the first returned
\* leave the log and the workspace of that serial order; two calls that
\* overlap can leave a log or a workspace that neither serial order leaves
\* (the state C33_Witness).
C33_SerialUnlessOverlapped ==
  (BothReturned /\ ~duel.overlapped) =>
    <<log, fs>> = SerialOutcome(duel.order[1], duel.order[2])

\* both calls read the log before either wrote it; the log or the workspace
\* they leave is the outcome of neither serial order
C33_Witness ==
  /\ BothReturned
  /\ duel.overlapped
  /\ \A i \in 1..2 : duel.run[i].error = "none"
  /\ <<log, fs>> # SerialOutcome(1, 2)
  /\ <<log, fs>> # SerialOutcome(2, 1)

\* the places of the lines that are objects with the id and the session
PlacesOf(lines, sessionId, id) ==
  {i \in 1..Len(lines) :
     /\ lines[i].kind = "entry"
     /\ lines[i].toolUseId = id
     /\ lines[i].sessionId = sessionId}

\* C34: the index loaded from a snapshot log maps every toolUseId to the last
\* well-formed entry, in the order of the file, that carries the id and the
\* requested sessionId, and holds no other key; blank and malformed lines,
\* texts that are no objects, and a missing snapshot log give no entry and no
\* error.
C34_LastWriteWins ==
  index.pc = "loaded" =>
    /\ index.error = "none"
    /\ index.missing => DOMAIN index.snapshots = {}
    /\ DOMAIN index.snapshots =
         {id \in 1..MaxTools : PlacesOf(index.lines, index.sessionId, id) # {}}
    /\ \A id \in DOMAIN index.snapshots :
         \E last \in PlacesOf(index.lines, index.sessionId, id) :
           /\ \A i \in PlacesOf(index.lines, index.sessionId, id) : i <= last
           /\ index.snapshots[id] = index.lines[last]

\* two entries of one id with a malformed line between them: the later entry
\* is the one of the index
C34_Witness ==
  /\ index.pc = "loaded"
  /\ Len(index.lines) = 3
  /\ index.lines[2].kind = "malformed"
  /\ PlacesOf(index.lines, index.sessionId, 1) = {1, 3}
  /\ index.lines[1].content # index.lines[3].content
  /\ index.snapshots[1] = index.lines[3]

\* C35: the snapshot log only grows at its end. Recording a snapshot adds one
\* entry after the entries the log holds and leaves these as they are;
\* restoreCheckpoint, with the load of the index and the restore of the
\* workspace files it calls, and the listing leave the snapshot log as it is.
C35_SnapshotLogAppendOnly ==
  [][/\ snapLog' # snapLog =>
          /\ ret'.op = "tool"
          /\ Len(snapLog') = Len(snapLog) + 1
          /\ SubSeq(snapLog', 1, Len(snapLog)) = snapLog
          /\ snapLog'[Len(snapLog')].toolUseId = Head(pending).id
     /\ ret'.op \in {"restoreCheckpoint", "listSessions"} => snapLog' = snapLog]_vars

\* a rewind restored the file from the first of two snapshots, and both
\* snapshots are in the log after it
C35_Witness ==
  /\ ret.op = "restoreCheckpoint"
  /\ ret.error = "none"
  /\ ret.called
  /\ ret.restored = 2
  /\ Len(snapLog) = 2
  /\ snapLog[1].toolUseId # snapLog[2].toolUseId
  /\ fs # ret.fsBefore

\* C36: restoreCheckpoint on a session whose log is missing or holds no
\* record that parses returns the empty list, as a value, and changes
\* nothing: the log file is neither created nor written, no file of the
\* workspace is restored, the snapshot log and the cache are as before.
C36_NoRecordsNoEffect ==
  [][(ret'.op = "restoreCheckpoint" /\ Len(log) = 0) =>
       /\ ret'.value = <<>>
       /\ ~ret'.propagated
       /\ ~ret'.called
       /\ log' = log
       /\ mtime' = mtime
       /\ fs' = fs
       /\ snapLog' = snapLog
       /\ cache' = cache]_vars

\* the session was listed and its file was lost: the rewind returned nothing
\* and left the entry of the lost file in the cache
C36_Witness ==
  /\ ret.op = "restoreCheckpoint"
  /\ Len(log) = 0
  /\ ret.messageIndex = 0
  /\ ret.value = <<>>
  /\ cache # NoEntry
  /\ cache.info.messageCount = 2

\* C37: getSession and listSessions only read the persisted state. A call of
\* either leaves the session log with its modification time, the snapshot log
\* and every file of the workspace as they are; getSession leaves the cache
\* as it is as well, and the cache changes through listSessions alone, which
\* stores the entry of the file it scanned.
C37_ReadersOnlyRead ==
  [][/\ ret'.op \in {"getSession", "listSessions"} =>
          /\ log' = log
          /\ mtime' = mtime
          /\ snapLog' = snapLog
          /\ fs' = fs
          /\ pending' = pending
     /\ ret'.op = "getSession" => cache' = cache
     /\ cache' # cache =>
          /\ ret'.op = "listSessions"
          /\ cache' = [mtime |-> mtime,
                       info |-> [id |-> SessionId, lastModified |-> mtime,
                                 messageCount |-> Len(log)]]]_vars

\* the session was listed after a tool changed a file that was snapshotted:
\* the listing stored an entry
C37_Witness ==
  /\ ret.op = "listSessions"
  /\ Len(ret.value) = 1
  /\ cache # NoEntry /\ cache.mtime = mtime
  /\ Len(log) = 2
  /\ Len(snapLog) >= 1
  /\ fs["f"] \in Contents

\* C39: a queued message is taken out of the queue before it is passed to
\* send, is passed to send once at most and is never put back, also when its
\* send failed; processQueue takes no message out of the queue of a busy
\* session.
C39_DequeuedOnceWhenIdle ==
  [][/\ \A i \in 1..Len(chat'.sends) : chat'.sends[i] \notin Range(chat'.queue)
     /\ \A i, j \in 1..Len(chat'.sends) :
          chat'.sends[i] = chat'.sends[j] => i = j
     /\ Len(chat'.sends) > Len(chat.sends) =>
          /\ ~chat.busy
          /\ chat'.last \in {"tick", "sendNow"}
          /\ chat'.sends = Append(chat.sends, chat'.sends[Len(chat'.sends)])
          /\ chat'.sends[Len(chat'.sends)] \in Range(chat.queue)
          /\ Len(chat'.queue) = Len(chat.queue) - 1
     /\ (Range(chat.queue) \ Range(chat'.queue)) # {} =>
          \/ chat'.last = "removeFromQueue"
          \/ Len(chat'.sends) > Len(chat.sends)
     /\ chat'.last = "sendSettled" => chat'.queue = chat.queue]_vars

\* both messages were queued while the session was busy and were sent, one
\* after the session became idle and one by handleSendNow
C39_Witness ==
  /\ Len(chat.sends) = 2
  /\ chat.sends[1] = 2
  /\ chat.queue = <<>>
  /\ chat.pending = 0
  /\ chat.last = "sendSettled"

\* C40: no message stays in the queue for ever while the session is idle: a
\* message in the queue is sent or removed, or the session is busy, again and
\* again.
C40_NoMessageWaitsWhileIdle ==
  \A id \in 1..MaxQueued :
    []<>(id \notin Range(chat.queue) \/ chat.busy)

====
